---- MODULE Spec2Model ----
(***************************************************************************)
(* A model of the tool operations of copernicus_mcp/server.py:             *)
(* batch_download_images (the bounded-concurrency scheduler) and the three *)
(* download paths it dispatches to (_download_full_product,                *)
(* _download_quicklook, _download_compressed), download_image and          *)
(* search_and_download (which reach the same paths through                 *)
(* _download_image_helper), and the search and product operations, each of *)
(* which is one step from its arguments to the dict it returns.            *)
(* One behaviour is one call of one tool operation.                        *)
(*                                                                         *)
(* One asyncio event loop runs the batch: every action below is the code   *)
(* between two suspension points (awaits) of one coroutine, so the         *)
(* interleavings of the actions are the interleavings of the tasks.        *)
(* The remote collaborators (token endpoint, catalogue, asset store) are   *)
(* the environment: each request is answered by a value drawn with \E.     *)
(***************************************************************************)
EXTENDS Integers, Sequences, FiniteSets, TLC

\* ------------------------------------------------------------------ bounds

\* Longest image_ids list given to batch_download_images.
MaxImages == 3

\* Largest max_concurrent given to batch_download_images (the smallest is -1:
\* the argument is not validated).
MaxConcurrent == 2

\* Longest Assets list in a product's metadata.
MaxAssets == 2

\* ------------------------------------------------------------- input sets

ImageIds == {"a", "b"}

DownloadTypes == {"full", "quicklook", "compressed", "thumbnail"}

\* The lists image_ids ranges over: the lists of 0..MaxImages ids, repeated
\* ids included. The ids are interchangeable, so a list starts with "a".
ImageIdLists ==
    {ids \in UNION {[1..n -> ImageIds] : n \in 0..MaxImages} :
        ids # <<>> => ids[1] = "a"}

\* What get_auth_token(username, password) answers.
AuthAnswers == {"token", "error", "no_token"}

\* How one streamed GET of a product endpoint ends before any byte is read:
\* the status line arrives (200 or not), or the client raises.
Statuses == {"200", "http_error", "timeout", "exception"}

\* How the body of a 200 response ends.
StreamEnds == {"complete", "timeout", "exception"}

\* The outcomes of an endpoint attempt that are failures.
FailedAttempts == {"http_error", "timeout", "exception"}

\* ------------------------------------------------------------------ state

VARIABLES
    pc,             \* where the tool operation is
    image_ids,      \* the arguments of the download operation
    download_type,
    max_concurrent,
    semaphore,      \* asyncio.Semaphore._value
    task,           \* task[i]: the coroutine download_with_semaphore(image_ids[i])
    files,          \* the paths that exist in download_dir
    out_of_order,   \* some task finished before a task listed before it
    tool,           \* the tool operation that was called
    args,           \* its other arguments, the credentials in the environment
                    \* and the catalogue's answer to a request for metadata
    ret,            \* what the tool operation returned
    calls           \* the remote collaborators that have been sent a request

toolVars == <<pc, image_ids, download_type, max_concurrent, semaphore, task,
              files, out_of_order, tool, args, ret, calls>>

\* search_copernicus_images, one call: its position, its parameters, the
\* value validate_geometry returned, the terms it compiled, the $filter it
\* joined them into, the products of the catalogue's page and the images it
\* returns.
VARIABLES spc, params, geometry, filter_parts, filter, products, images

searchVars == <<spc, params, geometry, filter_parts, filter, products, images>>

\* The chunk loop of one transfer: where it is, the length of the chunk it
\* processed last, the bytes written to the file, the bytes counted, the
\* count at the last progress report, the seconds since that report, and
\* what made the last chunk print a progress line to stderr, if it did.
VARIABLES tpc, chunk, written, downloaded, last_progress_size, since_progress,
          progress_line

transferVars == <<tpc, chunk, written, downloaded, last_progress_size,
                  since_progress, progress_line>>

\* What get_auth_token reads and keeps: the credentials in the environment and
\* the answer of the token endpoint, the module's cached token and its expiry,
\* and the clock, in minutes; and the headers of the catalogue request.
VARIABLES environment, _auth_token, _auth_token_expiry, now, headers

authVars == <<environment, _auth_token, _auth_token_expiry, now, headers>>

\* What the callers of the search compute from its images: the selection of
\* search_and_download and the periods of check_coverage.
VARIABLES best_product, best_score, coverage

resultVars == <<best_product, best_score, coverage>>

vars == <<toolVars, searchVars, transferVars, authVars, resultVars>>

Mission == "sentinel-2"

NoValue == "none"

\* ---------------------------------------------------------- return values
\* A returned dict is a record: keys is the set of the dict's keys, the other
\* fields are the values the claims read. An exception object that gather
\* collected has kind "exception".

Dict(keys, success, error, id, url, tried, size) ==
    [kind |-> "dict", keys |-> keys, success |-> success, error |-> error,
     product_id |-> id, download_url |-> url, tried_urls |-> tried,
     file_size_bytes |-> size]

ExceptionObject(id) ==
    [kind |-> "exception", keys |-> {}, success |-> FALSE, error |-> "raised",
     product_id |-> id, download_url |-> NoValue, tried_urls |-> <<>>,
     file_size_bytes |-> 0]

\* The two candidate endpoints of a full product, in the order they are tried.
download_urls(product_id) ==
    << <<"download.dataspace.copernicus.eu", product_id, "$value">>,
       <<"catalogue.dataspace.copernicus.eu", product_id, "$value">> >>

compressed_url(product_id) ==
    <<"catalogue.dataspace.copernicus.eu", product_id, "Compressed/$value">>

product_url(product_id) ==
    <<"catalogue.dataspace.copernicus.eu", product_id, "?$expand=Assets">>

quicklook_url(quicklook_id) ==
    <<"catalogue.dataspace.copernicus.eu", quicklook_id, "Assets/$value">>

\* f"{mission}_{image_id}": the filename download_with_semaphore passes on.
BatchFilename(image_id) == <<Mission, image_id>>

\* f"{safe_mission}_{image_id}_{timestamp}": the filename of a single download.
HelperFilename(image_id, timestamp) == <<"sentinel_2", image_id, timestamp>>

\* download_dir / f"{filename}<suffix>"
OutputPath(filename, suffix) == <<filename, suffix>>


\* output_path.stat().st_size of a completely downloaded product: the length
\* of the product's content.
ContentLength(product_id) == IF product_id = "a" THEN 1 ELSE 2

\* --------------------------------------------------- a download invocation
\* task[i] is one invocation of a download path: its arguments (product_id,
\* filename), its position pc, the loop index k of _download_full_product,
\* the requests it has issued with how each ended (attempts), the Assets of
\* the metadata it received, and the dict it returned.

NoResult == Dict({}, FALSE, NoValue, NoValue, NoValue, <<>>, 0)

NewTask(product_id, filename) ==
    [pc |-> "pending", product_id |-> product_id, filename |-> filename,
     k |-> 0, attempts |-> <<>>, assets |-> <<>>, result |-> NoResult]

Attempt(url, outcome) == [url |-> url, outcome |-> outcome]

\* A request goes out: client.stream("GET", url) or client.get(url).
Issue(t, url) == [t EXCEPT !.attempts = Append(@, Attempt(url, "inflight"))]

\* The request issued last ends.
Settle(t, outcome) == [t EXCEPT !.attempts[Len(t.attempts)].outcome = outcome]

Return(t, result) == [t EXCEPT !.pc = "returned", !.result = result]

Step(t, fs) == [t |-> t, files |-> fs]

\* --------------------------------------------------- _download_full_product

FullOutputPath(t) == OutputPath(t.filename, ".zip")

\* A success dict that names the first candidate URL whichever delivered.
FullSuccessFirstUrl(t, url, size) ==
    Dict({"success", "download_type", "product_id", "filename", "filepath",
          "file_size_bytes", "file_size_mb", "file_size_gb", "download_url",
          "message"},
         TRUE, NoValue, t.product_id, download_urls(t.product_id)[1], <<>>,
         size)

FullSuccess(t, url, size) ==
    Dict({"success", "download_type", "product_id", "filename", "filepath",
          "file_size_bytes", "file_size_mb", "file_size_gb", "download_url",
          "message"},
         TRUE, NoValue, t.product_id, url, <<>>, size)

FullFailure(t) ==
    Dict({"error", "message", "product_id", "tried_urls"},
         FALSE, "Download failed", t.product_id, NoValue,
         download_urls(t.product_id), 0)

\* Entering the function: the first iteration of `for url in download_urls`
\* opens the stream to the first URL.
_download_full_product(t) ==
    Issue([t EXCEPT !.pc = "full_contact", !.k = 1],
          download_urls(t.product_id)[1])

\* A loop that gives up at the first endpoint that fails.
FullGiveUp(t) == Return(t, FullFailure(t))

\* `continue`, or falling out of the with blocks: the next URL of the list,
\* and the failure dict after the last.
FullNextUrl(t) ==
    IF t.k < Len(download_urls(t.product_id))
    THEN Issue([t EXCEPT !.pc = "full_contact", !.k = t.k + 1],
               download_urls(t.product_id)[t.k + 1])
    ELSE Return(t, FullFailure(t))

\* The response to the k-th URL arrives: on status 200 the output file is
\* opened for writing (created or truncated) and the body is streamed; the
\* other statuses, a timeout and any other exception move on to the next URL.
FullResponse(t, fs, status) ==
    IF status = "200"
    THEN Step([Settle(t, "streaming") EXCEPT !.pc = "full_stream"],
              fs \cup {FullOutputPath(t)})
    ELSE Step(FullNextUrl(Settle(t, status)), fs)

\* The body ends: completely (the file is closed, and if it exists the
\* success dict names this URL), or by a timeout or another exception.
FullBody(t, fs, end) ==
    IF end = "complete"
    THEN IF FullOutputPath(t) \in fs
         THEN Step(Return(Settle(t, "ok"),
                          FullSuccess(t, download_urls(t.product_id)[t.k],
                                      ContentLength(t.product_id))),
                   fs)
         ELSE Step(FullNextUrl(Settle(t, "no_file")), fs)
    ELSE Step(FullNextUrl(Settle(t, end)), fs)

\* ------------------------------------------------------- _download_quicklook
\* An entry of the Assets list of a product's metadata. Id is NoValue for an
\* asset that carries no Id.

AssetKinds ==
    { [ContentType |-> "image/jpeg", Name |-> "manifest", Id |-> "q1"],
      [ContentType |-> "image/png", Name |-> "Preview", Id |-> "q2"],
      [ContentType |-> "image/jpeg", Name |-> "quicklook", Id |-> NoValue],
      [ContentType |-> "application/xml", Name |-> "manifest", Id |-> "m"] }

AssetLists(n) == UNION {[1..m -> AssetKinds] : m \in 0..n}

\* str.lower() on the names above.
Lower(name) == IF name = "Preview" THEN "preview" ELSE name

\* `word in name`, on the names above (none has a word as a proper part).
Contains(name, word) == name = word

\* The condition of the list comprehension that builds quicklook_assets.
IsQuicklookAsset(asset) ==
    \/ asset.ContentType = "image/jpeg"
    \/ Contains(Lower(asset.Name), "quicklook")
    \/ Contains(Lower(asset.Name), "preview")

\* A choice of the last matching asset.
ChosenLast(quicklook_assets) == quicklook_assets[Len(quicklook_assets)]

\* quicklook_assets[0]: the asset the download uses.
ChosenQuicklook(quicklook_assets) == quicklook_assets[1]

QuicklookOutputPath(t) == OutputPath(t.filename, "_quicklook.jpg")

QuicklookSuccess(t, url, size) ==
    Dict({"success", "download_type", "product_id", "quicklook_id", "filename",
          "filepath", "file_size_bytes", "file_size_kb", "download_url",
          "message"},
         TRUE, NoValue, t.product_id, url, <<>>, size)

QuicklookNotAvailable(t) ==
    Dict({"error", "message", "product_id"},
         FALSE, "Quicklook not available", t.product_id, NoValue, <<>>, 0)

QuicklookIdNotFound(t) ==
    Dict({"error", "message", "product_id"},
         FALSE, "Quicklook ID not found", t.product_id, NoValue, <<>>, 0)

QuicklookNotCreated(t) ==
    Dict({"error", "message", "product_id"},
         FALSE, "Quicklook download failed", t.product_id, NoValue, <<>>, 0)

\* The dict of the `except Exception` that encloses the whole function.
QuicklookException(t) ==
    Dict({"error", "exception", "product_id"},
         FALSE, "Quicklook download failed", t.product_id, NoValue, <<>>, 0)

\* Entering the function: the metadata request with the Assets expansion.
_download_quicklook(t) ==
    Issue([t EXCEPT !.pc = "ql_meta"], product_url(t.product_id))

\* The metadata answer arrives: a failed request (raise_for_status or a
\* client exception), or the product's data with its Assets list.
QuicklookMetadata(t, fs, answer) ==
    IF ~answer.ok
    THEN Step(Return(Settle(t, "exception"), QuicklookException(t)), fs)
    ELSE LET got == [Settle(t, "ok") EXCEPT !.assets = answer.Assets]
             quicklook_assets == SelectSeq(answer.Assets, IsQuicklookAsset)
         IN  IF quicklook_assets = <<>>
             THEN Step(Return(got, QuicklookNotAvailable(t)), fs)
             ELSE IF ChosenQuicklook(quicklook_assets).Id = NoValue
             THEN Step(Return(got, QuicklookIdNotFound(t)), fs)
             ELSE Step(Issue([got EXCEPT !.pc = "ql_asset"],
                             quicklook_url(ChosenQuicklook(quicklook_assets).Id)),
                       fs)

\* The response to the asset request arrives: raise_for_status lets only a
\* success status through, and then the output file is opened for writing.
QuicklookResponse(t, fs, status) ==
    IF status = "200"
    THEN Step([Settle(t, "streaming") EXCEPT !.pc = "ql_stream"],
              fs \cup {QuicklookOutputPath(t)})
    ELSE Step(Return(Settle(t, status), QuicklookException(t)), fs)

QuicklookBody(t, fs, end) ==
    IF end = "complete"
    THEN IF QuicklookOutputPath(t) \in fs
         THEN Step(Return(Settle(t, "ok"),
                          QuicklookSuccess(t, t.attempts[Len(t.attempts)].url,
                                           ContentLength(t.product_id))),
                   fs)
         ELSE Step(Return(Settle(t, "no_file"), QuicklookNotCreated(t)), fs)
    ELSE Step(Return(Settle(t, end), QuicklookException(t)), fs)

\* ------------------------------------------------------ _download_compressed

CompressedOutputPath(t) == OutputPath(t.filename, "_compressed.zip")

CompressedSuccess(t, size) ==
    Dict({"success", "download_type", "product_id", "filename", "filepath",
          "file_size_bytes", "file_size_mb", "download_url", "message"},
         TRUE, NoValue, t.product_id, compressed_url(t.product_id), <<>>, size)

\* The dict of the else branch of `if response.status_code == 200`.
CompressedHttpError(t) ==
    Dict({"error", "message", "product_id", "url"},
         FALSE, "Compressed download failed", t.product_id, NoValue, <<>>, 0)

CompressedTimeout(t) ==
    Dict({"error", "exception", "product_id", "message"},
         FALSE, "Compressed download timeout", t.product_id, NoValue, <<>>, 0)

CompressedException(t) ==
    Dict({"error", "exception", "product_id"},
         FALSE, "Compressed download failed", t.product_id, NoValue, <<>>, 0)

\* What the function returns when the compressed endpoint did not deliver.
CompressedFailed(t, how) ==
    IF how = "http_error" THEN Return(t, CompressedHttpError(t))
    ELSE IF how = "timeout" THEN Return(t, CompressedTimeout(t))
    ELSE Return(t, CompressedException(t))

\* Entering the function: the stream to the compressed endpoint is opened.
_download_compressed(t) ==
    Issue([t EXCEPT !.pc = "cmp_contact"], compressed_url(t.product_id))

CompressedResponse(t, fs, status) ==
    IF status = "200"
    THEN Step([Settle(t, "streaming") EXCEPT !.pc = "cmp_stream"],
              fs \cup {CompressedOutputPath(t)})
    ELSE Step(CompressedFailed(Settle(t, status), status), fs)

\* The body ends. The call of _download_full_product after the with blocks
\* is reached only from a complete 200 response whose file does not exist.
CompressedBody(t, fs, end) ==
    IF end = "complete"
    THEN IF CompressedOutputPath(t) \in fs
         THEN Step(Return(Settle(t, "ok"), CompressedSuccess(t, ContentLength(t.product_id))),
                   fs)
         ELSE Step(_download_full_product(Settle(t, "no_file")), fs)
    ELSE Step(CompressedFailed(Settle(t, end), end), fs)

\* ---------------------------------------------------------- environment

\* The downloads of a batch draw their answers from smaller sets than a
\* single download (whose sets are Statuses, StreamEnds, MetadataAnswers):
\* a request is answered by a status, and a body may break off.
BatchStatuses == {"200", "http_error"}

BatchStreamEnds == {"complete", "exception"}

\* The Assets lists a metadata answer carries: of a single download, and of
\* the downloads of a batch.
MetadataAnswer(ok, assets) == [ok |-> ok, Assets |-> assets]

MetadataAnswers ==
    {MetadataAnswer(FALSE, <<>>)}
        \cup {MetadataAnswer(TRUE, a) : a \in AssetLists(MaxAssets)}

BatchMetadataAnswers ==
    {MetadataAnswer(FALSE, <<>>)}
        \cup {MetadataAnswer(TRUE, a) :
                 a \in {l \in AssetLists(1) :
                          \A n \in DOMAIN l : l[n].ContentType = "image/jpeg"}}

\* ------------------------------------------------- the dicts of the callers

NoReturn == [kind |-> "none", keys |-> {}]

Raised(type) == [kind |-> "raised", keys |-> {}, type |-> type]

AuthenticationRequired ==
    [kind |-> "dict", keys |-> {"error", "message"},
     error |-> "Authentication required"]

\* get_auth_token's error dicts: of an HTTP status error and of any other
\* exception.
TokenError == [kind |-> "dict", keys |-> {"error", "status_code", "message"},
               error |-> "Authentication failed"]

NoAccessToken == [kind |-> "dict", keys |-> {"error", "message"},
                  error |-> "Authentication failed"]

\* The else branch of download_with_semaphore's dispatch.
BatchInvalidType(t) ==
    Dict({"error", "image_id", "message"},
         FALSE, "Invalid download type", t.product_id, NoValue, <<>>, 0)

\* --------------------------------------------------- batch_download_images

\* A semaphore whose acquire() never waits.
AcquireAlways(value) == TRUE

\* A semaphore whose release() gives nothing back.
ReleaseLost(value) == value

\* asyncio.Semaphore: acquire() takes a slot when the value is positive and
\* waits otherwise; release() gives the slot back.
CanAcquire(value) == value > 0

Released(value) == value + 1

\* The body of download_with_semaphore under `async with semaphore`: the
\* dispatch on download_type, up to the first await of the chosen path.
Dispatch(t, dtype) ==
    IF dtype = "full" THEN _download_full_product(t)
    ELSE IF dtype = "quicklook" THEN _download_quicklook(t)
    ELSE IF dtype = "compressed" THEN _download_compressed(t)
    ELSE Return(t, BatchInvalidType(t))

\* A task is in flight: it holds a slot of the semaphore.
Active(t) == t.pc \notin {"pending", "done"}

InFlight == {i \in DOMAIN task : Active(task[i])}

\* The path task t has open for writing, if any.
Writing(t) == t.pc \in {"full_stream", "ql_stream", "cmp_stream"}

OpenPath(t) ==
    IF t.pc = "full_stream" THEN FullOutputPath(t)
    ELSE IF t.pc = "ql_stream" THEN QuicklookOutputPath(t)
    ELSE CompressedOutputPath(t)

\* A gather that hands the results back in the reverse of the tasks' order.
GatherReversed(tasks) ==
    [i \in DOMAIN tasks |-> tasks[Len(tasks) + 1 - i].result]

\* asyncio.gather(*tasks, return_exceptions=True): the results in the order
\* of the tasks.
Gather(tasks) == [i \in DOMAIN tasks |-> tasks[i].result]

FailedEntry(image_id, result) ==
    [image_id |-> image_id, keys |-> {"image_id", "result"}, result |-> result]

FailedException(image_id, result) ==
    [image_id |-> image_id, keys |-> {"image_id", "error", "type"},
     result |-> result]

\* The loop `for i, result in enumerate(results)` from index i on.
RECURSIVE ProcessFrom(_, _, _, _)
ProcessFrom(results, ids, i, acc) ==
    IF i > Len(results) THEN acc
    ELSE LET result == results[i]
             image_id == ids[i]
         IN  IF result.kind = "exception"
             THEN ProcessFrom(results, ids, i + 1,
                      [acc EXCEPT !.failed =
                          Append(@, FailedException(image_id, result))])
             ELSE IF result.kind = "dict" /\ result.success
             THEN ProcessFrom(results, ids, i + 1,
                      [acc EXCEPT !.successful = Append(@, result),
                                  !.total_size = @ + result.file_size_bytes])
             ELSE ProcessFrom(results, ids, i + 1,
                      [acc EXCEPT !.failed =
                          Append(@, FailedEntry(image_id, result))])

ProcessResults(results, ids) ==
    ProcessFrom(results, ids, 1,
                [successful |-> <<>>, failed |-> <<>>, total_size |-> 0])

\* The dict batch_download_images returns.
BatchResult(results, ids) ==
    LET done == ProcessResults(results, ids)
    IN  [kind |-> "dict",
         keys |-> {"batch_summary", "successful_downloads", "failed_downloads"},
         total_images |-> Len(ids),
         successful |-> Len(done.successful),
         failed |-> Len(done.failed),
         total_size_bytes |-> done.total_size,
         successful_downloads |-> done.successful,
         failed_downloads |-> done.failed]

\* ---------------------------------------------------- _download_image_helper

HelperAuthenticationRequired ==
    [kind |-> "dict",
     keys |-> {"error", "message", "instructions", "register_url"},
     error |-> "Authentication required"]

HelperNoAccessToken ==
    [kind |-> "dict", keys |-> {"error", "message", "response"},
     error |-> "Authentication failed"]

HelperInvalidType ==
    [kind |-> "dict", keys |-> {"error", "message", "received"},
     error |-> "Invalid download type"]

\* The dict of the `except Exception` that encloses the function's body.
HelperException ==
    [kind |-> "dict", keys |-> {"error", "exception", "type"},
     error |-> "Download failed"]

\* The dispatch on download_type, up to the first await of the chosen path.
HelperDispatch(t, dtype) ==
    IF dtype = "full" THEN _download_full_product(t)
    ELSE IF dtype = "quicklook" THEN _download_quicklook(t)
    ELSE _download_compressed(t)

\* ------------------------------------------------- the other tool operations
\* A tool operation that awaits nothing but its own collaborators is one
\* action: the whole handler, its collaborators' answers drawn with \E.

\* The arguments the tool operations read. geometry_type is the string the
\* caller gave ("circle" is no member of GeometryType); geometry tells whether
\* validate_geometry accepts the geometry or raises ValueError; dates is the
\* pair start_date, end_date.
GeometryTypes == {"point", "polygon", "bbox", "circle"}

Geometries == {"valid", "invalid"}

Missions == {"sentinel-2", "landsat-8"}

Dates == {"none", "range", "inverted", "malformed"}

DefaultArgs ==
    [geometry_type |-> "point", geometry |-> "valid", mission |-> "sentinel-2",
     dates |-> "none", group_by |-> "month", days_back |-> 7,
     max_results |-> 10, credentials |-> TRUE,
     metadata |-> [ok |-> FALSE, Assets |-> <<>>]]

\* COPERNICUS_COLLECTIONS
COPERNICUS_COLLECTIONS == {"sentinel-1", "sentinel-2", "sentinel-3",
                           "sentinel-5p", "sentinel-6"}

\* class GeometryType
GeometryType == {"point", "polygon", "bbox"}

\* What the catalogue answers to the search request.
CatalogAnswers == {"page", "empty", "http_error", "timeout"}

ToolDict(keys, error) == [kind |-> "dict", keys |-> keys, error |-> error]

\* search_copernicus_images(params): "ValueError" when validate_geometry
\* rejects the geometry, "Exception" when the catalogue request fails, and
\* the images of the page otherwise.
search_copernicus_images(a, catalog) ==
    IF a.geometry = "invalid" THEN "ValueError"
    ELSE IF catalog \in {"http_error", "timeout"} THEN "Exception"
    ELSE catalog

\* search_copernicus: the whole body is inside try/except Exception.
search_copernicus(a, catalog) ==
    IF a.mission \notin COPERNICUS_COLLECTIONS
    THEN ToolDict({"error", "available_missions"}, "Unknown mission")
    ELSE IF a.dates = "malformed"
    THEN ToolDict({"error", "message"}, "Invalid isoformat string")
    ELSE IF a.geometry_type \notin GeometryType
    THEN ToolDict({"error", "message"}, "validation error")
    ELSE IF search_copernicus_images(a, catalog) = "ValueError"
    THEN ToolDict({"error", "message"}, "Invalid geometry")
    ELSE IF search_copernicus_images(a, catalog) = "Exception"
    THEN ToolDict({"error", "message"}, "API request failed")
    ELSE ToolDict({"total_results", "returned_results", "images",
                   "search_summary", "download_authentication_note"}, NoValue)

\* get_image_details: the answer of the catalogue to Products(image_id).
DetailAnswers == {"200", "non200", "exception", "no_date"}

get_image_details(answer) ==
    IF answer = "200"
    THEN ToolDict({"image", "authentication_note", "python_example", "note"},
                  NoValue)
    ELSE IF answer = "non200"
    THEN ToolDict({"error", "message"}, "Failed to get image details")
    ELSE ToolDict({"error", "message"}, "request or parse exception")

\* get_recent_images: range checks, then the search; inside try/except.
get_recent_images(a, catalog) ==
    IF a.days_back < 1 \/ a.days_back > 365
    THEN ToolDict({"error", "message"}, "days_back must be between 1 and 365")
    ELSE IF a.max_results < 1 \/ a.max_results > 100
    THEN ToolDict({"error", "message"}, "max_results must be between 1 and 100")
    ELSE IF a.geometry_type \notin GeometryType
    THEN ToolDict({"error", "message"}, "validation error")
    ELSE IF search_copernicus_images(a, catalog) = "ValueError"
    THEN ToolDict({"error", "message"}, "Invalid geometry")
    ELSE IF search_copernicus_images(a, catalog) = "Exception"
    THEN ToolDict({"error", "message"}, "API request failed")
    ELSE ToolDict({"total_results", "returned_results", "images",
                   "search_parameters", "download_authentication_note",
                   "date_range", "note"}, NoValue)

GroupBys == {"month", "decade"}

\* check_coverage: date and group_by checks, then the search and the
\* analysis; inside try/except. Dates that are no strings raise in
\* str.replace, which the enclosing except catches.
check_coverage(a, catalog) ==
    IF a.dates = "none"
    THEN ToolDict({"error", "message"}, "AttributeError")
    ELSE IF a.dates = "malformed"
    THEN ToolDict({"error", "message"}, "Invalid date format")
    ELSE IF a.dates = "inverted"
    THEN ToolDict({"error", "message"}, "Invalid date range")
    ELSE IF a.group_by \notin {"day", "week", "month", "year"}
    THEN ToolDict({"error", "message"}, "Invalid group_by value")
    ELSE IF a.geometry_type \notin GeometryType
    THEN ToolDict({"error", "message"}, "validation error")
    ELSE IF search_copernicus_images(a, catalog) = "ValueError"
    THEN ToolDict({"error", "message"}, "Invalid geometry")
    ELSE IF search_copernicus_images(a, catalog) = "Exception"
    THEN ToolDict({"error", "message"}, "API request failed")
    ELSE ToolDict({"coverage_analysis", "summary", "note",
                   "download_authentication_note"}, NoValue)

\* check_download_availability: one entry per image id, from the answer to
\* its metadata request.
AvailabilityAnswers == {"200", "non200", "exception"}

AvailabilityEntry(image_id, answer) ==
    IF answer = "200"
    THEN [image_id |-> image_id, available |-> TRUE,
          keys |-> {"image_id", "available", "status_code",
                    "quicklook_available", "size_bytes", "size_mb", "name",
                    "content_date"}]
    ELSE IF answer = "non200"
    THEN [image_id |-> image_id, available |-> FALSE,
          keys |-> {"image_id", "available", "status_code", "error"}]
    ELSE [image_id |-> image_id, available |-> FALSE,
          keys |-> {"image_id", "available", "error", "type"}]

check_download_availability(ids, credentials, auth, answers) ==
    IF ~credentials THEN AuthenticationRequired
    ELSE IF auth = "error" THEN TokenError
    ELSE IF auth = "no_token" THEN NoAccessToken
    ELSE [kind |-> "dict", keys |-> {"summary", "availability_details"},
          availability_details |->
              [i \in DOMAIN ids |-> AvailabilityEntry(ids[i], answers[i])]]

\* get_product_download_links: the metadata request and the loop over the
\* assets. download_links has the keys full_product, quicklook and
\* compressed; the loop appends to download_links["quicklooks"], a KeyError
\* that the enclosing except turns into its dict.
get_product_download_links(credentials, auth, answer) ==
    IF ~credentials THEN AuthenticationRequired
    ELSE IF auth = "error" THEN TokenError
    ELSE IF auth = "no_token" THEN NoAccessToken
    ELSE IF ~answer.ok
              \/ \E n \in DOMAIN answer.Assets :
                    /\ IsQuicklookAsset(answer.Assets[n])
                    /\ answer.Assets[n].Id # NoValue
    THEN ToolDict({"error", "image_id", "exception", "type"},
                  "Failed to get download links")
    ELSE ToolDict({"success", "image_id", "product_name", "content_date",
                   "size_bytes", "size_mb", "download_links", "metadata"},
                  NoValue)

\* search_and_download, up to the call of _download_image_helper.
\* GeometryType(geometry_type) is evaluated before the try: the ValueError of
\* an unknown type leaves the function. selected is the id of the image the
\* selection picked ("" when the record has no Id).
SearchFailed == ToolDict({"error", "search_error", "message"}, "Search failed")

\* The collaborators search_copernicus_images sends a request to once the
\* geometry is validated: the token endpoint when get_auth_token finds
\* credentials in the environment, and the catalogue.
SearchRequests(a) ==
    {"catalog"} \cup (IF a.credentials THEN {"auth"} ELSE {})

\* The errors a search operation returns before it calls
\* search_copernicus_images, and the one of validate_geometry, which
\* search_copernicus_images calls before it sends anything.
LocalErrors ==
    {"Unknown mission", "Invalid isoformat string", "validation error",
     "Invalid geometry", "days_back must be between 1 and 365",
     "max_results must be between 1 and 100", "AttributeError",
     "Invalid date format", "Invalid date range", "Invalid group_by value"}

\* The collaborators a search operation called with a has sent a request to
\* when it returns r.
SearchCalls(a, r) ==
    IF r.error \in LocalErrors THEN {} ELSE SearchRequests(a)

\* The collaborators check_download_availability and
\* get_product_download_links have sent a request to when they return: none
\* without credentials, the token endpoint, and the catalogue once there is
\* a token and an image id to ask about.
ProductCalls(ids, credentials, auth) ==
    IF ~credentials THEN {}
    ELSE IF auth # "token" \/ ids = <<>> THEN {"auth"}
    ELSE {"auth", "catalog"}

\* The collaborator a download path's request goes to: the catalogue for the
\* product's metadata, the asset store for a product, an asset or an archive.
Collaborator(url) == IF url = product_url(url[2]) THEN "catalog" ELSE "asset"

NoImagesFound == ToolDict({"error", "search_params", "message"}, "No images found")

NoImageId == ToolDict({"error", "best_product", "message"}, "No image ID found")

SearchAndDownloadResult(download_result) ==
    [kind |-> "dict",
     keys |-> {"search_summary", "selected_image", "download_result"},
     download_result |-> download_result]

\* What _download_image_helper's caller makes of the dict it returns.
HelperReturn(t, result) ==
    IF t = "search_and_download" THEN SearchAndDownloadResult(result)
    ELSE result

\* ------------------------------------------------------- validate_geometry
\* A Python value that can arrive as `geometry`: a number, a string (of valid
\* JSON, which json.loads turns into the value it holds, or not), a list, or
\* a dict with a "type" and maybe "coordinates". All are records of one
\* shape: t is the type, n the number (for a string 1 when it is valid JSON,
\* for a dict 1 when its type is "Polygon"), v the items of a list, the value
\* a JSON string holds, or the dict's coordinates when it has that key.
Num(k) == [t |-> "num", n |-> k, v |-> <<>>]

List(items) == [t |-> "list", n |-> 0, v |-> items]

JsonString(value) == [t |-> "str", n |-> 1, v |-> <<value>>]

NotJson == [t |-> "str", n |-> 0, v |-> <<>>]

None == [t |-> "None", n |-> 0, v |-> <<>>]

\* The float that is not a number: every comparison with it is false.
NaN == [t |-> "nan", n |-> 0, v |-> <<>>]

GeoJson(is_polygon, coordinates) ==
    [t |-> "dict", n |-> IF is_polygon THEN 1 ELSE 0, v |-> coordinates]

\* Coordinates are counted in units of 1/KmPerDegree of a degree, so that
\* delta = size_km / 111.0 degrees is size_km units.
KmPerDegree == 111

size_km == 1

Degrees(d) == d * KmPerDegree

ValidLon(lon) == Degrees(-180) <= lon /\ lon <= Degrees(180)

ValidLat(lat) == Degrees(-90) <= lat /\ lat <= Degrees(90)

Pair(lon, lat) == List(<<Num(lon), Num(lat)>>)

\* What validate_geometry does: it returns a value or raises ValueError.
Returned(value) == [ok |-> TRUE, value |-> value, error |-> NoValue]

ValueError(message) == [ok |-> FALSE, value |-> List(<<>>), error |-> message]

\* create_bbox_from_point with longitude and latitude taken one for the other.
BboxSwapped(lat, lon) ==
    LET delta == size_km
    IN  List(<< Pair(lat - delta, lon - delta),
                Pair(lat + delta, lon - delta),
                Pair(lat + delta, lon + delta),
                Pair(lat - delta, lon + delta),
                Pair(lat - delta, lon - delta) >>)

\* create_bbox_from_point(lat, lon)
create_bbox_from_point(lat, lon) ==
    LET delta == size_km
    IN  List(<< Pair(lon - delta, lat - delta),
                Pair(lon + delta, lat - delta),
                Pair(lon + delta, lat + delta),
                Pair(lon - delta, lat + delta),
                Pair(lon - delta, lat - delta) >>)

AllNumbers(items) == \A n \in DOMAIN items : items[n].t = "num"

\* isinstance(coord_pair, list) and len(coord_pair) == 2 and all numbers
IsCoordPair(x) == x.t = "list" /\ Len(x.v) = 2 /\ AllNumbers(x.v)

\* The check of the loop `for i, coord_pair in enumerate(...)` on one item:
\* the error it raises, or NoValue.
CoordPairError(x) ==
    IF ~IsCoordPair(x) THEN "Invalid coordinate pair"
    ELSE IF ~ValidLon(x.v[1].n) THEN "Longitude out of range"
    ELSE IF ~ValidLat(x.v[2].n) THEN "Latitude out of range"
    ELSE NoValue

\* The validation loop over a ring, the length check and the closing of the
\* ring (the same code for the simple and for the nested polygon).
ValidateRing(ring) ==
    LET bad == {n \in DOMAIN ring : CoordPairError(ring[n]) # NoValue}
    IN  IF bad # {}
        THEN ValueError(CoordPairError(
                 ring[CHOOSE n \in bad : \A m \in bad : n <= m]))
        ELSE IF Len(ring) < 3
        THEN ValueError("Polygon must have at least 3 points")
        ELSE IF ring[1] # ring[Len(ring)]
        THEN Returned(List(Append(ring, ring[1])))
        ELSE Returned(List(ring))

ValidatePoint(g) ==
    IF g.t = "list" /\ Len(g.v) = 2
    THEN IF ~AllNumbers(g.v)
         THEN ValueError("Point coordinates must be numbers")
         ELSE IF ~ValidLon(g.v[1].n) THEN ValueError("Longitude out of range")
         ELSE IF ~ValidLat(g.v[2].n) THEN ValueError("Latitude out of range")
         ELSE Returned(create_bbox_from_point(g.v[2].n, g.v[1].n))
    ELSE ValueError("Point geometry must be [lon, lat]")

ValidateBbox(g) ==
    IF g.t = "list" /\ Len(g.v) = 4
    THEN IF ~AllNumbers(g.v)
         THEN ValueError("Bounding box coordinates must be numbers")
         ELSE LET min_lon == g.v[1].n
                  min_lat == g.v[2].n
                  max_lon == g.v[3].n
                  max_lat == g.v[4].n
              IN  IF ~ValidLon(min_lon)
                  THEN ValueError("Longitude out of range")
                  ELSE IF ~ValidLat(min_lat)
                  THEN ValueError("Latitude out of range")
                  ELSE IF ~ValidLon(max_lon)
                  THEN ValueError("Longitude out of range")
                  ELSE IF ~ValidLat(max_lat)
                  THEN ValueError("Latitude out of range")
                  ELSE IF min_lon >= max_lon \/ min_lat >= max_lat
                  THEN ValueError("Min must be less than max")
                  ELSE Returned(List(<< Pair(min_lon, min_lat),
                                        Pair(max_lon, min_lat),
                                        Pair(max_lon, max_lat),
                                        Pair(min_lon, max_lat),
                                        Pair(min_lon, min_lat) >>))
    ELSE ValueError("Bounding box must be [min_lon, min_lat, max_lon, max_lat]")

ValidatePolygon(g) ==
    IF g.t = "list"
    THEN IF g.v # <<>> /\ g.v[1].t = "list"
         THEN IF g.v[1].v # <<>> /\ g.v[1].v[1].t = "num"
              THEN ValidateRing(g.v)
              ELSE IF g.v[1].v = <<>>
              THEN ValueError("Polygon ring cannot be empty")
              ELSE ValidateRing(g.v[1].v)
         ELSE ValueError("Polygon must be a list of coordinate pairs")
    ELSE IF g.t = "dict" /\ g.n = 1
    THEN IF g.v # <<>> /\ g.v[1].t = "list" /\ g.v[1].v # <<>>
         THEN Returned(g.v[1].v[1])
         ELSE ValueError("Invalid GeoJSON polygon coordinates")
    ELSE ValueError("Polygon must be a list of coordinates or GeoJSON Polygon")

\* validate_geometry(geometry, geometry_type), after json.loads of a string.
ValidateParsed(g, geometry_type) ==
    IF geometry_type = "point" THEN ValidatePoint(g)
    ELSE IF geometry_type = "bbox" THEN ValidateBbox(g)
    ELSE IF geometry_type = "polygon" THEN ValidatePolygon(g)
    ELSE ValueError("Unknown geometry type")

\* The parameters when no search is followed.
NoParams ==
    [geometry |-> List(<<>>), geometry_type |-> NoValue, start |-> FALSE,
     end |-> FALSE, mission |-> NoValue, min |-> None, max |-> None,
     max_results |-> 0]

validate_geometry(g, geometry_type) ==
    IF g.t = "str"
    THEN IF g.n = 0
         THEN ValueError("Geometry string must be valid JSON")
         ELSE ValidateParsed(g.v[1], geometry_type)
    ELSE ValidateParsed(g, geometry_type)

\* ------------------------------------------------ search_copernicus_images
\* One term of the $filter: what it is, what it compares with, and for the
\* spatial term the "lon lat" items of the WKT polygon.
Term(term, arg, wkt) == [term |-> term, arg |-> arg, wkt |-> wkt]

\* get_collection_name(mission)
get_collection_name(mission) ==
    IF mission \in COPERNICUS_COLLECTIONS THEN <<"upper", mission>>
    ELSE <<"as given", mission>>

CollectionTerm(p) ==
    Term("Collection/Name eq", get_collection_name(p.mission), <<>>)

\* Date terms as soon as one bound is present.
DateTermsEither(p) ==
    IF p.start \/ p.end
    THEN << Term("ContentDate/Start ge", <<"isoformat Z", "start">>, <<>>),
            Term("ContentDate/Start le", <<"isoformat Z", "end">>, <<>>) >>
    ELSE <<>>

\* `if params.date_range and params.date_range.start and
\* params.date_range.end`: the two appends.
DateTerms(p) ==
    IF p.start /\ p.end
    THEN << Term("ContentDate/Start ge", <<"isoformat Z", "start">>, <<>>),
            Term("ContentDate/Start le", <<"isoformat Z", "end">>, <<>>) >>
    ELSE <<>>

\* The body of the `try`: the loop that collects the "lon lat" items (the
\* same for the three geometry types), raising where len() has no meaning,
\* and the closing of wkt_coords.
TrySpatialFilter(g) ==
    IF g.t = "num"
    THEN [raised |-> g.n # 0, wkt |-> <<>>]
    ELSE IF g.t # "list" \/ g.v = <<>>
    THEN [raised |-> FALSE, wkt |-> <<>>]
    ELSE IF \E n \in DOMAIN g.v : g.v[n].t \in {"num", "None", "nan"}
    THEN [raised |-> TRUE, wkt |-> <<>>]
    ELSE LET usable == SelectSeq(g.v, LAMBDA coord : Len(coord.v) = 2)
             wkt_coords == [n \in DOMAIN usable |->
                               <<usable[n].v[1], usable[n].v[2]>>]
         IN  [raised |-> FALSE,
              wkt |-> IF wkt_coords = <<>> THEN <<>>
                      ELSE IF wkt_coords[1] # wkt_coords[Len(wkt_coords)]
                      THEN Append(wkt_coords, wkt_coords[1])
                      ELSE wkt_coords]

\* No `except`: what the body raises leaves the search.
ExceptNothing(outcome) == outcome

\* `except Exception`: the search continues without the spatial filter.
ExceptException(outcome) ==
    IF outcome.raised THEN [raised |-> FALSE, wkt |-> <<>>] ELSE outcome

SpatialTerms(outcome) ==
    IF outcome.wkt = <<>> THEN <<>>
    ELSE <<Term("geo.intersects", <<"Footprint", "POLYGON">>, outcome.wkt)>>

\* filter_parts when the request is made.
FilterParts(p, outcome) ==
    <<CollectionTerm(p)>> \o DateTerms(p) \o SpatialTerms(outcome)

\* " and ".join(filter_parts)
RECURSIVE Join(_)
Join(parts) ==
    IF Len(parts) <= 1 THEN parts
    ELSE <<Head(parts), Term(" and ", <<>>, <<>>)>> \o Join(Tail(parts))

\* float(cloud_cover) of a string; None where it raises.
Float(x) == IF x.n = 1 /\ x.v[1].t \in {"num", "nan"} THEN x.v[1] ELSE None

\* A product of the page: its Id and the Value of its cloudCover attribute
\* (Missing when it has no such attribute).
Missing == [t |-> "missing", n |-> 0, v |-> <<>>]

\* The cloud cover read from the product.
CloudCover(product, mission) ==
    IF mission \in {"sentinel-2", "sentinel-3"}
    THEN IF product.cloudCover = Missing THEN None
         ELSE IF product.cloudCover.t = "str" THEN Float(product.cloudCover)
         ELSE product.cloudCover
    ELSE None

\* Python's comparison of floats.
LessThan(x, y) == x.t = "num" /\ y.t = "num" /\ x.n < y.n

\* A cloud cover filter without the check of the maximum.
SkippedBelowMin(cloud_cover, p) ==
    p.min # None /\ cloud_cover # None /\ LessThan(cloud_cover, p.min)

\* The cloud cover filter: TRUE when the product is skipped (`continue`).
Skipped(cloud_cover, p) ==
    \/ p.min # None /\ cloud_cover # None /\ LessThan(cloud_cover, p.min)
    \/ p.max # None /\ cloud_cover # None /\ LessThan(p.max, cloud_cover)

\* The tokens looked for in a product's title (its Name), as characters.
Chars ==
    [L1C |-> <<"L", "1", "C">>, L2A |-> <<"L", "2", "A">>,
     GRD |-> <<"G", "R", "D">>, SLC |-> <<"S", "L", "C">>,
     MSIL1C |-> <<"M", "S", "I", "L", "1", "C">>,
     MSIL2A |-> <<"M", "S", "I", "L", "2", "A">>,
     S1 |-> <<"S", "1">>, S2 |-> <<"S", "2">>, S3 |-> <<"S", "3">>,
     S6 |-> <<"S", "6">>]

\* `token in title`
TitleContains(title, token) ==
    \E i \in 0..(Len(title) - Len(Chars[token])) :
       SubSeq(title, i + 1, i + Len(Chars[token])) = Chars[token]

\* title.startswith(token)
StartsWith(title, token) ==
    /\ Len(title) >= Len(Chars[token])
    /\ SubSeq(title, 1, Len(Chars[token])) = Chars[token]

\* An if/elif chain over the tokens: the first one the title contains, or "".
RECURSIVE FirstIn(_, _)
FirstIn(title, tokens) ==
    IF tokens = <<>> THEN ""
    ELSE IF TitleContains(title, Head(tokens)) THEN Head(tokens)
    ELSE FirstIn(title, Tail(tokens))

\* The processing level with "L2A" looked for before "L1C".
ProcessingLevelL2AFirst(title) == FirstIn(title, <<"L2A", "L1C", "GRD", "SLC">>)

\* Lines 662-671.
ProcessingLevel(title) == FirstIn(title, <<"L1C", "L2A", "GRD", "SLC">>)

\* Lines 686-695.
ProductType(title) == FirstIn(title, <<"MSIL1C", "MSIL2A", "GRD", "SLC">>)

\* Lines 673-684: `title[2]` of a title of two characters raises IndexError.
PlatformRaises(title) ==
    /\ \E token \in {"S1", "S2", "S3", "S6"} : StartsWith(title, token)
    /\ Len(title) < 3

\* A date and time: with a UTC offset ("aware") or without ("naive"), its
\* day, its ISO week, and the whole days from it to now. The ContentDate of a
\* product can also be a string fromisoformat() rejects.
DateTime(kind, ymd, week, days_ago) ==
    [kind |-> kind, ymd |-> ymd, week |-> week, days_ago |-> days_ago]

\* datetime.now()
Now == DateTime("naive", <<2024, 6, 11>>, <<2024, 24>>, 0)

Unparsable == DateTime("unparsable", <<0, 0, 0>>, <<0, 0>>, 0)

\* Lines 629-637.
AcquisitionDate(product) ==
    IF product.Start = Unparsable THEN Now ELSE product.Start

ImageMetadata(product, mission) ==
    [id |-> product.Id,
     acquisition_date |-> AcquisitionDate(product),
     cloud_cover_percentage |-> CloudCover(product, mission),
     processing_level |-> ProcessingLevel(product.Name),
     product_type |-> ProductType(product.Name)]

\* The loop raises on the first product it does not skip whose title is too
\* short for its platform.
RaisesIndexError(page, p) ==
    \E n \in DOMAIN page :
       /\ ~Skipped(CloudCover(page[n], p.mission), p)
       /\ PlatformRaises(page[n].Name)

\* The loop with `images.insert(0, ...)` in the place of `images.append(...)`.
RECURSIVE ParseResultsReversed(_, _)
ParseResultsReversed(page, p) ==
    IF page = <<>> THEN <<>>
    ELSE LET image == ImageMetadata(Head(page), p.mission)
         IN  IF Skipped(image.cloud_cover_percentage, p)
             THEN ParseResultsReversed(Tail(page), p)
             ELSE ParseResultsReversed(Tail(page), p) \o <<image>>

\* The loop over products[:params.max_results].
RECURSIVE ParseResults(_, _)
ParseResults(page, p) ==
    IF page = <<>> THEN <<>>
    ELSE LET image == ImageMetadata(Head(page), p.mission)
         IN  IF Skipped(image.cloud_cover_percentage, p)
             THEN ParseResults(Tail(page), p)
             ELSE <<image>> \o ParseResults(Tail(page), p)

Slice(page, max_results) ==
    SubSeq(page, 1, IF max_results < Len(page) THEN max_results ELSE Len(page))

\* ----------------------------------------------------------------- actions

ToolStep == UNCHANGED <<searchVars, transferVars, authVars, resultVars>>

\* No tool operation has been called.
ToolInit ==
    /\ pc = "idle"
    /\ image_ids = <<>>
    /\ download_type = NoValue
    /\ max_concurrent = 0
    /\ semaphore = 0
    /\ task = <<>>
    /\ files = {}
    /\ out_of_order = FALSE
    /\ tool = NoValue
    /\ args = DefaultArgs
    /\ ret = NoReturn
    /\ calls = {}

\* auth_token = None
NoToken == 0

\* The token the endpoint issues at a time: one per minute.
Token(issued_at) == issued_at + 1

\* `time.time() + expires_in - 60`: the minute taken off the lifetime.
Buffer == 1

\* The credentials in the environment (COPERNICUS_USERNAME and
\* COPERNICUS_PASSWORD both set, or not), what the token endpoint does with
\* them, and the expires_in of the tokens it issues, in minutes.
Environment(configured, answer, expires_in) ==
    [configured |-> configured, answer |-> answer, expires_in |-> expires_in]

Unconfigured == Environment(FALSE, "rejected", 1)

\* What get_auth_token returns: the cached str, the dict of a new token, or
\* a dict with "error".
TokenResponse(t, access_token) == [t |-> t, access_token |-> access_token]

\* Lines 415-477, called without arguments: what it returns, and the cache
\* it leaves.
get_auth_token ==
    IF _auth_token # NoToken /\ now < _auth_token_expiry
    THEN [response |-> TokenResponse("str", _auth_token),
          _auth_token |-> _auth_token,
          _auth_token_expiry |-> _auth_token_expiry]
    ELSE IF ~environment.configured
    THEN [response |-> TokenResponse("Authentication required", NoToken),
          _auth_token |-> _auth_token,
          _auth_token_expiry |-> _auth_token_expiry]
    ELSE IF environment.answer = "rejected"
    THEN [response |-> TokenResponse("Authentication failed", NoToken),
          _auth_token |-> _auth_token,
          _auth_token_expiry |-> _auth_token_expiry]
    ELSE IF environment.answer = "raises"
    THEN [response |-> TokenResponse("Authentication error", NoToken),
          _auth_token |-> _auth_token,
          _auth_token_expiry |-> _auth_token_expiry]
    ELSE [response |-> TokenResponse("dict", Token(now)),
          _auth_token |-> Token(now),
          _auth_token_expiry |-> now + environment.expires_in - Buffer]

\* Lines 586-597: the token the search takes from the answer.
AuthToken(auth_token_response) ==
    IF auth_token_response.t = "dict"
    THEN auth_token_response.access_token
    ELSE NoToken

\* The headers of get_image_details (lines 956-959), which always hold an
\* Authorization entry.
HeadersOfDetails(auth_token) ==
    [Accept |-> "application/json", Authorization |-> <<auth_token>>]

\* Lines 600-602: the headers of the search's request; Authorization is
\* <<>> when the key is absent.
Headers(auth_token) ==
    [Accept |-> "application/json",
     Authorization |-> IF auth_token # NoToken THEN <<auth_token>> ELSE <<>>]

\* No request has been sent, by a process that has not been configured.
NoSession ==
    /\ environment = Unconfigured
    /\ _auth_token = NoToken
    /\ _auth_token_expiry = 0
    /\ now = 0
    /\ headers = Headers(NoToken)

\* float("-inf")
NegInf == [t |-> "-inf", n |-> 0, v |-> <<>>]

\* Scores are counted in halves of a point, `* 0.5` leaving one half for
\* each percent without clouds.
Halves == 2

\* "Higher score for images within 30 days"
RecentDays == 30

\* Lines 2935-2942: the points for a recent image. The difference of
\* datetime.now(), which has no time zone, and a datetime that has one raises
\* TypeError, and the bare except passes.
Recency(acquisition_date) ==
    IF acquisition_date.kind = "aware" THEN 0
    ELSE IF acquisition_date.days_ago < RecentDays
    THEN Halves * (RecentDays - acquisition_date.days_ago)
    ELSE 0

\* Lines 2945-2947: `(100 - cloud_cover) * 0.5`, of a float.
CloudTerm(cloud_cover) ==
    IF cloud_cover = None THEN Num(0)
    ELSE IF cloud_cover.t = "num" THEN Num(100 - cloud_cover.n)
    ELSE NaN

\* Lines 2950-2954.
LevelTerm(processing_level) ==
    IF processing_level = "L2A" THEN Halves * 20
    ELSE IF processing_level = "L1C" THEN Halves * 10
    ELSE 0

\* Lines 2932-2954: the score of one image.
Score(product) ==
    LET points == Recency(product.acquisition_date)
                     + LevelTerm(product.processing_level)
        clouds == CloudTerm(product.cloud_cover_percentage)
    IN  IF clouds.t = "num" THEN Num(points + clouds.n) ELSE NaN

\* `score >= best_score`, of floats.
GreaterOrEqual(score, best) ==
    score.t = "num" /\ (best.t = "-inf" \/ (best.t = "num" /\ score.n >= best.n))

\* Line 2956: `score > best_score`, of floats.
Greater(score, best) ==
    score.t = "num" /\ (best.t = "-inf" \/ (best.t = "num" /\ score.n > best.n))

\* Lines 2930-2958: the loop over the images, from the best so far.
RECURSIVE SelectFrom(_, _, _)
SelectFrom(list, product, score) ==
    IF list = <<>> THEN [best_product |-> product, best_score |-> score]
    ELSE IF Greater(Score(Head(list)), score)
    THEN SelectFrom(Tail(list), <<Head(list)>>, Score(Head(list)))
    ELSE SelectFrom(Tail(list), product, score)

\* `valid_group_by`
valid_group_by == {"day", "week", "month", "year"}

\* The period of a datetime: strftime("%Y-%m-%d"), the ISO year and week,
\* strftime("%Y-%m"), strftime("%Y"), as numbers.
Period(acquisition_date, group_by) ==
    IF group_by = "day" THEN acquisition_date.ymd
    ELSE IF group_by = "week" THEN acquisition_date.week
    ELSE IF group_by = "year" THEN SubSeq(acquisition_date.ymd, 1, 1)
    ELSE SubSeq(acquisition_date.ymd, 1, 2)

\* Lines 1360-1377 over `img.dict()` (line 1329), which leaves the
\* acquisition date a datetime: .replace("Z", "+00:00") is then
\* datetime.replace, which raises TypeError for its str arguments; of a str
\* it would be str.replace, and the date would be parsed.
PeriodKey(image, group_by) ==
    IF image.acquisition_date.kind \in {"aware", "naive"}
    THEN [raised |-> TRUE, period_key |-> <<>>]
    ELSE [raised |-> FALSE,
          period_key |-> Period(image.acquisition_date, group_by)]

\* Lines 1358-1401: the periods of the images that are not skipped.
coverage_by_period(list, group_by) ==
    {PeriodKey(list[n], group_by).period_key :
        n \in {m \in DOMAIN list : ~PeriodKey(list[m], group_by).raised}}

\* The order of the period keys.
RECURSIVE Before(_, _)
Before(a, b) ==
    IF a = <<>> THEN b # <<>>
    ELSE IF b = <<>> THEN FALSE
    ELSE \/ Head(a) < Head(b)
         \/ Head(a) = Head(b) /\ Before(Tail(a), Tail(b))

\* Lines 1404-1423: one entry for each period, sorted by period.
RECURSIVE CoverageAnalysis(_, _, _)
CoverageAnalysis(periods, list, group_by) ==
    IF periods = {} THEN <<>>
    ELSE LET first == CHOOSE k \in periods :
                         \A j \in periods \ {k} : Before(k, j)
             counted == {n \in DOMAIN list :
                           /\ ~PeriodKey(list[n], group_by).raised
                           /\ PeriodKey(list[n], group_by).period_key = first}
         IN  <<[period |-> first, image_count |-> Cardinality(counted)]>>
                \o CoverageAnalysis(periods \ {first}, list, group_by)

\* Lines 1425-1446: the dict check_coverage returns.
Coverage(list, group_by) ==
    LET analysis == CoverageAnalysis(coverage_by_period(list, group_by),
                                     list, group_by)
    IN  [coverage_analysis |-> analysis,
         total_images |-> Len(list),
         group_by |-> group_by,
         periods_covered |-> Len(analysis)]

NoCoverage ==
    [coverage_analysis |-> <<>>, total_images |-> 0, group_by |-> "",
     periods_covered |-> 0]

\* Nothing has been computed from a search result.
NoSelection ==
    /\ best_product = <<>>
    /\ best_score = NegInf
    /\ coverage = NoCoverage

\* No search_copernicus_images call is being followed.
NoSearch ==
    /\ spc = "idle"
    /\ params = NoParams
    /\ geometry = List(<<>>)
    /\ filter_parts = <<>>
    /\ filter = <<>>
    /\ products = <<>>
    /\ images = <<>>
    /\ NoSession
    /\ NoSelection

\* No chunk loop is being followed.
NoTransfer ==
    /\ tpc = "idle"
    /\ chunk = 0
    /\ written = 0
    /\ downloaded = 0
    /\ last_progress_size = 0
    /\ since_progress = 0
    /\ progress_line = NoValue

Init == ToolInit /\ NoSearch /\ NoTransfer

\* Task i's coroutine resumes and runs to its next await or to its end. In a
\* batch the end of the download path ends download_with_semaphore: the
\* `async with` gives the slot back and the task is done. In a single
\* download the dict goes back to the caller of _download_image_helper.
Resume(i, st, value) ==
    /\ files' = st.files
    /\ calls' = IF Len(st.t.attempts) > Len(task[i].attempts)
                THEN calls \cup
                         {Collaborator(st.t.attempts[Len(st.t.attempts)].url)}
                ELSE calls
    /\ UNCHANGED <<image_ids, download_type, max_concurrent, tool, args>>
    /\ IF st.t.pc = "returned"
       THEN /\ task' = [task EXCEPT ![i] = [st.t EXCEPT !.pc = "done"]]
            /\ IF pc = "gathering"
               THEN /\ semaphore' = Released(value)
                    /\ out_of_order' =
                           (out_of_order \/ \E j \in 1..(i - 1) : task[j].pc # "done")
                    /\ UNCHANGED <<pc, ret>>
               ELSE /\ pc' = "returned"
                    /\ ret' = HelperReturn(tool, st.t.result)
                    /\ UNCHANGED <<semaphore, out_of_order>>
       ELSE /\ task' = [task EXCEPT ![i] = st.t]
            /\ semaphore' = value
            /\ UNCHANGED <<pc, ret, out_of_order>>

\* A tool operation that is one step: called for the image ids with the
\* arguments a, it returns r after requests to the collaborators sent.
Call(name, ids, a, r, sent) ==
    /\ tool' = name
    /\ image_ids' = ids
    /\ args' = a
    /\ pc' = "returned"
    /\ ret' = r
    /\ calls' = sent
    /\ UNCHANGED <<download_type, max_concurrent, semaphore, task, files,
                   out_of_order>>

\* batch_download_images is called: the credentials check, then the await of
\* get_auth_token.
batch_download_images ==
    /\ pc = "idle"
    /\ tool' = "batch_download_images"
    /\ \E ids \in ImageIdLists, dtype \in DownloadTypes,
          mc \in (-1)..MaxConcurrent, credentials \in BOOLEAN :
          /\ image_ids' = ids
          /\ download_type' = dtype
          /\ max_concurrent' = mc
          /\ args' = [DefaultArgs EXCEPT !.credentials = credentials]
          /\ IF credentials
             THEN pc' = "batch_auth" /\ ret' = ret
             ELSE pc' = "returned" /\ ret' = AuthenticationRequired
    /\ UNCHANGED <<semaphore, task, files, out_of_order, calls>>

\* get_auth_token answers: an error dict is returned as it is; with a token
\* the directory is made, the semaphore is built (asyncio raises ValueError
\* for a negative value) and gather starts one task per image id.
BatchAuthenticated ==
    /\ pc = "batch_auth"
    /\ calls' = calls \cup {"auth"}
    /\ \E answer \in AuthAnswers, mkdir \in {"ok", "oserror"} :
          IF answer = "error"
          THEN /\ pc' = "returned" /\ ret' = TokenError
               /\ UNCHANGED <<semaphore, task>>
          ELSE IF answer = "no_token"
          THEN /\ pc' = "returned" /\ ret' = NoAccessToken
               /\ UNCHANGED <<semaphore, task>>
          ELSE IF mkdir = "oserror"
          THEN /\ pc' = "raised" /\ ret' = Raised("OSError")
               /\ UNCHANGED <<semaphore, task>>
          ELSE IF max_concurrent < 0
          THEN /\ pc' = "raised" /\ ret' = Raised("ValueError")
               /\ UNCHANGED <<semaphore, task>>
          ELSE /\ pc' = "gathering" /\ ret' = ret
               /\ semaphore' = max_concurrent
               /\ task' = [i \in 1..Len(image_ids) |->
                              NewTask(image_ids[i], BatchFilename(image_ids[i]))]
    /\ UNCHANGED <<image_ids, download_type, max_concurrent, files,
                   out_of_order, tool, args>>

\* Task i enters `async with semaphore` and runs to its first await.
download_with_semaphore(i) ==
    /\ pc = "gathering"
    /\ task[i].pc = "pending"
    /\ CanAcquire(semaphore)
    /\ Resume(i, Step(Dispatch(task[i], download_type), files), semaphore - 1)

\* The response to the request task i has in flight arrives.
Response(i) ==
    /\ pc \in {"gathering", "downloading"}
    /\ task[i].pc \in {"full_contact", "ql_asset", "cmp_contact"}
    /\ \E status \in (IF pc = "gathering" THEN BatchStatuses ELSE Statuses) :
          Resume(i,
                 IF task[i].pc = "full_contact"
                 THEN FullResponse(task[i], files, status)
                 ELSE IF task[i].pc = "ql_asset"
                 THEN QuicklookResponse(task[i], files, status)
                 ELSE CompressedResponse(task[i], files, status),
                 semaphore)

\* The answer to task i's metadata request arrives.
Metadata(i) ==
    /\ pc \in {"gathering", "downloading"}
    /\ task[i].pc = "ql_meta"
    /\ \E answer \in (IF pc = "gathering" THEN BatchMetadataAnswers
                                          ELSE MetadataAnswers) :
          Resume(i, QuicklookMetadata(task[i], files, answer), semaphore)

\* The body task i is streaming to its file ends.
Body(i) ==
    /\ pc \in {"gathering", "downloading"}
    /\ Writing(task[i])
    /\ \E end \in (IF pc = "gathering" THEN BatchStreamEnds ELSE StreamEnds) :
          Resume(i,
                 IF task[i].pc = "full_stream"
                 THEN FullBody(task[i], files, end)
                 ELSE IF task[i].pc = "ql_stream"
                 THEN QuicklookBody(task[i], files, end)
                 ELSE CompressedBody(task[i], files, end),
                 semaphore)

\* gather has every result: the loop over the results and the return.
BatchReturn ==
    /\ pc = "gathering"
    /\ \A i \in DOMAIN task : task[i].pc = "done"
    /\ pc' = "returned"
    /\ ret' = BatchResult(Gather(task), image_ids)
    /\ UNCHANGED <<image_ids, download_type, max_concurrent, semaphore, task,
                   files, out_of_order, tool, args, calls>>

\* _download_image_helper is entered for image id: the credentials check,
\* then the await of get_auth_token.
EnterHelper(id, dtype, credentials) ==
    /\ image_ids' = <<id>>
    /\ download_type' = dtype
    /\ IF credentials
       THEN pc' = "helper_auth" /\ ret' = ret
       ELSE /\ pc' = "returned"
            /\ ret' = HelperReturn(tool', HelperAuthenticationRequired)
    /\ UNCHANGED <<max_concurrent, semaphore, task, files, out_of_order>>

\* download_image is called.
download_image ==
    /\ pc = "idle"
    /\ tool' = "download_image"
    /\ calls' = calls
    /\ \E id \in ImageIds, dtype \in DownloadTypes, credentials \in BOOLEAN :
          /\ args' = [DefaultArgs EXCEPT !.credentials = credentials]
          /\ EnterHelper(id, dtype, credentials)

\* get_auth_token answers in _download_image_helper: with a token the
\* directory is made (an OSError is caught by the enclosing except) and the
\* download path of download_type is entered.
HelperAuthenticated ==
    /\ pc = "helper_auth"
    /\ calls' = calls \cup {"auth"}
    /\ \E answer \in AuthAnswers, mkdir \in {"ok", "oserror"} :
          IF answer = "error"
          THEN /\ pc' = "returned" /\ task' = task
               /\ ret' = HelperReturn(tool, TokenError)
          ELSE IF answer = "no_token"
          THEN /\ pc' = "returned" /\ task' = task
               /\ ret' = HelperReturn(tool, HelperNoAccessToken)
          ELSE IF mkdir = "oserror"
          THEN /\ pc' = "returned" /\ task' = task
               /\ ret' = HelperReturn(tool, HelperException)
          ELSE IF download_type \notin {"full", "quicklook", "compressed"}
          THEN /\ pc' = "returned" /\ task' = task
               /\ ret' = HelperReturn(tool, HelperInvalidType)
          ELSE /\ pc' = "downloading" /\ ret' = ret
               /\ task' = <<HelperDispatch(
                               NewTask(image_ids[1],
                                       HelperFilename(image_ids[1], "now")),
                               download_type)>>
    /\ UNCHANGED <<image_ids, download_type, max_concurrent, semaphore, files,
                   out_of_order, tool, args>>

\* search_and_download is called: the parameter objects are built
\* (GeometryType(geometry_type) raises ValueError for an unknown type), then
\* search_copernicus_images validates the geometry and sends its request.
search_and_download ==
    /\ pc = "idle"
    /\ tool' = "search_and_download"
    /\ \E gt \in GeometryTypes, g \in Geometries, d \in Dates,
          dtype \in DownloadTypes, credentials \in BOOLEAN :
          /\ args' = [DefaultArgs EXCEPT !.geometry_type = gt, !.geometry = g,
                                         !.dates = d,
                                         !.credentials = credentials]
          /\ download_type' = dtype
          /\ IF gt \notin GeometryType
             THEN pc' = "raised" /\ ret' = Raised("ValueError") /\ calls' = {}
             ELSE IF search_copernicus_images(args', "page") = "ValueError"
             THEN pc' = "returned" /\ ret' = SearchFailed /\ calls' = {}
             ELSE /\ pc' = "searching" /\ ret' = ret
                  /\ calls' = SearchRequests(args')
    /\ UNCHANGED <<image_ids, max_concurrent, semaphore, task, files,
                   out_of_order>>

\* The catalogue answers search_and_download's search: the failure and the
\* empty page are returned as error dicts; otherwise the best image is
\* selected and _download_image_helper is called for its id.
Searched ==
    /\ pc = "searching"
    /\ UNCHANGED <<tool, args, calls>>
    /\ \E catalog \in CatalogAnswers, selected \in ImageIds \cup {""} :
          IF search_copernicus_images(args, catalog) = "Exception"
          THEN /\ pc' = "returned" /\ ret' = SearchFailed
               /\ UNCHANGED <<image_ids, download_type, max_concurrent,
                              semaphore, task, files, out_of_order>>
          ELSE IF catalog = "empty"
          THEN /\ pc' = "returned" /\ ret' = NoImagesFound
               /\ UNCHANGED <<image_ids, download_type, max_concurrent,
                              semaphore, task, files, out_of_order>>
          ELSE IF selected = ""
          THEN /\ pc' = "returned" /\ ret' = NoImageId
               /\ UNCHANGED <<image_ids, download_type, max_concurrent,
                              semaphore, task, files, out_of_order>>
          ELSE EnterHelper(selected, download_type, args.credentials)

\* The arguments of the tool operations that search the catalogue.
SearchArgs ==
    {[DefaultArgs EXCEPT !.geometry_type = gt, !.geometry = g, !.mission = m,
                         !.dates = d, !.group_by = gb, !.days_back = db,
                         !.max_results = mr] :
        gt \in GeometryTypes, g \in Geometries, m \in Missions, d \in Dates,
        gb \in GroupBys, db \in {0, 7}, mr \in {10, 101}}

CallSearchCopernicus ==
    /\ pc = "idle"
    /\ \E a \in SearchArgs, catalog \in CatalogAnswers :
          Call("search_copernicus", <<>>, a, search_copernicus(a, catalog),
               SearchCalls(a, search_copernicus(a, catalog)))

CallGetRecentImages ==
    /\ pc = "idle"
    /\ \E a \in SearchArgs, catalog \in CatalogAnswers :
          Call("get_recent_images", <<>>, a, get_recent_images(a, catalog),
               SearchCalls(a, get_recent_images(a, catalog)))

CallCheckCoverage ==
    /\ pc = "idle"
    /\ \E a \in SearchArgs, catalog \in CatalogAnswers :
          Call("check_coverage", <<>>, a, check_coverage(a, catalog),
               SearchCalls(a, check_coverage(a, catalog)))

CallGetImageDetails ==
    /\ pc = "idle"
    /\ \E id \in ImageIds, answer \in DetailAnswers :
          Call("get_image_details", <<id>>, DefaultArgs,
               get_image_details(answer), SearchRequests(DefaultArgs))

CallCheckDownloadAvailability ==
    /\ pc = "idle"
    /\ \E ids \in ImageIdLists, credentials \in BOOLEAN, auth \in AuthAnswers :
       \E answers \in [DOMAIN ids -> AvailabilityAnswers] :
          Call("check_download_availability", ids,
               [DefaultArgs EXCEPT !.credentials = credentials],
               check_download_availability(ids, credentials, auth, answers),
               ProductCalls(ids, credentials, auth))

CallGetProductDownloadLinks ==
    /\ pc = "idle"
    /\ \E id \in ImageIds, credentials \in BOOLEAN, auth \in AuthAnswers,
          answer \in MetadataAnswers :
          Call("get_product_download_links", <<id>>,
               [DefaultArgs EXCEPT !.credentials = credentials,
                                   !.metadata = answer],
               get_product_download_links(credentials, auth, answer),
               ProductCalls(<<id>>, credentials, auth))

\* A step of a tool operation leaves the followed search and transfer alone.
Next ==
    \/ batch_download_images /\ ToolStep
    \/ BatchAuthenticated /\ ToolStep
    \/ \E i \in DOMAIN task : download_with_semaphore(i) /\ ToolStep
    \/ \E i \in DOMAIN task : Response(i) /\ ToolStep
    \/ \E i \in DOMAIN task : Metadata(i) /\ ToolStep
    \/ \E i \in DOMAIN task : Body(i) /\ ToolStep
    \/ BatchReturn /\ ToolStep
    \/ download_image /\ ToolStep
    \/ HelperAuthenticated /\ ToolStep
    \/ search_and_download /\ ToolStep
    \/ Searched /\ ToolStep
    \/ CallSearchCopernicus /\ ToolStep
    \/ CallGetRecentImages /\ ToolStep
    \/ CallCheckCoverage /\ ToolStep
    \/ CallGetImageDetails /\ ToolStep
    \/ CallCheckDownloadAvailability /\ ToolStep
    \/ CallGetProductDownloadLinks /\ ToolStep

Spec == Init /\ [][Next]_vars

\* The event loop runs a coroutine that can run, and every answer awaited
\* from a collaborator arrives.
FairSpec == Spec /\ WF_vars(Next)

\* ------------------------------------- search_copernicus_images, followed
MaxVertices == 3

MaxProducts == 2

SeqsUpTo(S, n) == UNION {[1..k -> S] : k \in 0..n}

\* What a caller can put where a vertex is expected: three vertices of a
\* triangle, a longitude and a latitude out of range, a list of three
\* numbers and a bare number.
Vertices ==
    {Pair(0, 0), Pair(Degrees(10), 0), Pair(Degrees(10), Degrees(10)),
     Pair(Degrees(200), 0), Pair(0, Degrees(100)),
     List(<<Num(0), Num(0), Num(0)>>), Num(0)}

Rings == SeqsUpTo(Vertices, MaxVertices)

\* What a caller can put where a coordinate is expected.
Coordinates == {Num(0), Num(Degrees(10)), Num(Degrees(180)), Num(Degrees(200)),
                NotJson}

CoordinateLists == SeqsUpTo(Coordinates, 4)

\* The forms of a polygon: the flat list, the nested ring, the GeoJSON object
\* (of type Polygon or not, with or without coordinates).
PolygonForms ==
    {List(ring) : ring \in Rings}
        \cup {List(<<List(ring)>>) : ring \in Rings}
        \cup {GeoJson(TRUE, <<List(<<List(ring)>>)>>) : ring \in Rings}
        \cup {GeoJson(TRUE, <<>>), GeoJson(TRUE, <<List(<<>>)>>),
              GeoJson(FALSE, <<List(<<List(<<>>)>>)>>)}

ParsedGeometries(geometry_type) ==
    {List(c) : c \in CoordinateLists}
        \cup (IF geometry_type = "polygon" THEN PolygonForms ELSE {})

\* Every value also arrives as the JSON string of it.
GeometryInputs(geometry_type) ==
    ParsedGeometries(geometry_type)
        \cup {JsonString(g) : g \in ParsedGeometries(geometry_type)}
        \cup {NotJson}

CloudCoverValues ==
    {Missing, Num(10), Num(50), Num(90), JsonString(Num(90)), NotJson,
     JsonString(NaN)}

\* A product of Sentinel-2A, level 2A, acquired the day before now.
DefaultTitle == Chars.S2 \o <<"A", "_">> \o Chars.MSIL2A

Yesterday == DateTime("aware", <<2024, 6, 10>>, <<2024, 24>>, 1)

\* The pages of the catalogue: the products are numbered in the page's order.
Pages ==
    {[n \in DOMAIN values |->
         [Id |-> n, cloudCover |-> values[n], Name |-> DefaultTitle,
          Start |-> Yesterday]] :
        values \in SeqsUpTo(CloudCoverValues, MaxProducts)}

SearchStart(p, page) ==
    /\ ToolInit
    /\ NoTransfer
    /\ spc = "called"
    /\ params = p
    /\ products = page
    /\ geometry = List(<<>>)
    /\ filter_parts = <<>>
    /\ filter = <<>>
    /\ images = <<>>
    /\ NoSession
    /\ NoSelection

\* Searches of every geometry and date range, for one mission and page.
FilterInit ==
    \E geometry_type \in GeometryType :
       \E g \in GeometryInputs(geometry_type) :
          \E start \in BOOLEAN, end \in BOOLEAN :
             SearchStart([geometry |-> g, geometry_type |-> geometry_type,
                          start |-> start, end |-> end,
                          mission |-> "sentinel-2", min |-> None,
                          max |-> None, max_results |-> MaxProducts],
                         <<[Id |-> 1, cloudCover |-> Num(50),
                            Name |-> DefaultTitle, Start |-> Yesterday]>>)

\* Searches of every mission, cloud cover filter and page, around one point.
ResultsInit ==
    \E mission \in Missions \cup {"sentinel-1"} :
       \E min \in {None, Num(20)}, max \in {None, Num(60)} :
          \E max_results \in 1..MaxProducts, page \in Pages :
             SearchStart([geometry |-> List(<<Num(0), Num(0)>>),
                          geometry_type |-> "point",
                          start |-> TRUE, end |-> TRUE,
                          mission |-> mission, min |-> min,
                          max |-> max, max_results |-> max_results],
                         page)

MaxWords == 2

\* What a title is made of: the tokens, a platform prefix, and other text.
Words ==
    {Chars.L1C, Chars.L2A, Chars.GRD, Chars.SLC, Chars.MSIL1C, Chars.MSIL2A,
     Chars.S2, <<"A", "_">>}

RECURSIVE Concat(_)
Concat(words) == IF words = <<>> THEN <<>> ELSE Head(words) \o Concat(Tail(words))

Titles == {Concat(words) : words \in SeqsUpTo(Words, MaxWords)}

\* Searches whose page is one product, of every title.
TitlesInit ==
    \E title \in Titles, mission \in {"sentinel-1", "sentinel-2"} :
       SearchStart([geometry |-> List(<<Num(0), Num(0)>>),
                    geometry_type |-> "point",
                    start |-> TRUE, end |-> TRUE,
                    mission |-> mission, min |-> None,
                    max |-> None, max_results |-> 1],
                   <<[Id |-> 1, cloudCover |-> Num(50), Name |-> title,
                      Start |-> Yesterday]>>)

\* Lines 490-494: the geometry is validated, or the search raises.
ValidateGeometry ==
    /\ spc = "called"
    /\ LET r == validate_geometry(params.geometry, params.geometry_type)
       IN  IF r.ok
           THEN geometry' = r.value /\ spc' = "validated"
           ELSE spc' = "Invalid geometry" /\ UNCHANGED geometry
    /\ UNCHANGED <<params, filter_parts, filter, products, images>>
    /\ UNCHANGED <<toolVars, transferVars, authVars, resultVars>>

\* Lines 496-611: the filter is compiled, a token is asked for, and the
\* request is sent with the headers that follow from the answer.
CompileFilter ==
    /\ spc = "validated"
    /\ LET outcome == ExceptException(TrySpatialFilter(geometry))
           token == get_auth_token
       IN  IF outcome.raised
           THEN /\ spc' = "raised"
                /\ UNCHANGED <<filter_parts, filter, _auth_token,
                               _auth_token_expiry, headers>>
           ELSE /\ filter_parts' = FilterParts(params, outcome)
                /\ filter' = Join(FilterParts(params, outcome))
                /\ _auth_token' = token._auth_token
                /\ _auth_token_expiry' = token._auth_token_expiry
                /\ headers' = Headers(AuthToken(token.response))
                /\ spc' = "requesting"
    /\ UNCHANGED <<params, geometry, products, images, environment, now>>
    /\ UNCHANGED <<toolVars, transferVars, resultVars>>

\* Lines 611-763: the catalogue answers, and its products are parsed.
ParseProducts ==
    /\ spc = "requesting"
    /\ \E answered \in BOOLEAN :
          IF ~answered
          THEN spc' = "API request failed" /\ UNCHANGED images
          ELSE IF RaisesIndexError(Slice(products, params.max_results), params)
          THEN spc' = "IndexError" /\ UNCHANGED images
          ELSE /\ images' = ParseResults(Slice(products, params.max_results),
                                         params)
               /\ spc' = "returned"
    /\ UNCHANGED <<params, geometry, filter_parts, filter, products>>
    /\ UNCHANGED <<toolVars, transferVars, authVars, resultVars>>

SearchNext ==
    \/ ValidateGeometry
    \/ CompileFilter
    \/ ParseProducts

FilterSpec == FilterInit /\ [][SearchNext]_vars

ResultsSpec == ResultsInit /\ [][SearchNext]_vars

TitlesSpec == TitlesInit /\ [][SearchNext]_vars

\* --------------------------------- search_and_download's choice of an image
\* Acquired the day before now, 40 days before now, with no time zone in the
\* timestamp.
NaiveYesterday == DateTime("naive", <<2024, 6, 10>>, <<2024, 24>>, 1)

NaiveLastMonth == DateTime("naive", <<2024, 5, 2>>, <<2024, 18>>, 40)

\* The products of the pages: their cloud cover, level and timestamp.
Records ==
    {[cloudCover |-> value, Name |-> Chars.S2 \o <<"A", "_">> \o type,
      Start |-> start] :
        value \in {Missing, Num(10), Num(50), JsonString(NaN)},
        type \in {Chars.MSIL2A, Chars.MSIL1C, Chars.GRD},
        start \in {Yesterday, NaiveYesterday, NaiveLastMonth}}

\* search_and_download searches with no cloud cover bound and max_results=10
\* (lines 2880-2895); the page is of any records.
SelectInit ==
    \E records \in SeqsUpTo(Records, MaxProducts) :
       SearchStart([geometry |-> List(<<Num(0), Num(0)>>),
                    geometry_type |-> "point",
                    start |-> TRUE, end |-> TRUE,
                    mission |-> "sentinel-2", min |-> None,
                    max |-> None, max_results |-> 10],
                   [n \in DOMAIN records |->
                       [Id |-> n, cloudCover |-> records[n].cloudCover,
                        Name |-> records[n].Name, Start |-> records[n].Start]])

\* Lines 2915-2965: the images of the search are scored and the best one is
\* selected, or an error dict is returned.
SelectBest ==
    /\ spc = "returned"
    /\ IF images = <<>>
       THEN spc' = "No images found" /\ UNCHANGED <<best_product, best_score>>
       ELSE LET best == SelectFrom(images, <<>>, NegInf)
            IN  /\ best_product' = best.best_product
                /\ best_score' = best.best_score
                /\ spc' = IF best.best_product = <<>>
                          THEN "No suitable image found"
                          ELSE "selected"
    /\ UNCHANGED <<params, geometry, filter_parts, filter, products, images,
                   coverage>>
    /\ UNCHANGED <<toolVars, transferVars, authVars>>

SelectNext ==
    \/ ValidateGeometry
    \/ CompileFilter
    \/ ParseProducts
    \/ SelectBest

SelectSpec == SelectInit /\ [][SelectNext]_vars

\* --------------------------------------------- check_coverage's periods
Today == DateTime("aware", <<2024, 6, 11>>, <<2024, 24>>, 0)

LastMonth == DateTime("aware", <<2024, 5, 2>>, <<2024, 18>>, 40)

\* check_coverage searches with max_results=1000 and no cloud cover bound
\* (lines 1314-1320); the products are of three days, in two weeks and months.
CoverageInit ==
    \E records \in SeqsUpTo({Today, Yesterday, LastMonth} \X {Missing, Num(10)},
                            MaxProducts) :
       SearchStart([geometry |-> List(<<Num(0), Num(0)>>),
                    geometry_type |-> "point",
                    start |-> TRUE, end |-> TRUE,
                    mission |-> "sentinel-2", min |-> None,
                    max |-> None, max_results |-> 1000],
                   [n \in DOMAIN records |->
                       [Id |-> n, cloudCover |-> records[n][2],
                        Name |-> DefaultTitle, Start |-> records[n][1]]])

\* Lines 1326-1446: the images of the search are grouped by period.
GroupCoverage ==
    /\ spc = "returned"
    /\ \E group_by \in valid_group_by :
          coverage' = Coverage(images, group_by)
    /\ spc' = "covered"
    /\ UNCHANGED <<params, geometry, filter_parts, filter, products, images,
                   best_product, best_score>>
    /\ UNCHANGED <<toolVars, transferVars, authVars>>

CoverageNext ==
    \/ ValidateGeometry
    \/ CompileFilter
    \/ ParseProducts
    \/ GroupCoverage

CoverageSpec == CoverageInit /\ [][CoverageNext]_vars

\* ------------------------------------------- searches, one after the other
MaxTime == 3

\* The lifetimes of the tokens, in minutes: the buffer, and more.
ExpiresIn == {Buffer, Buffer + 2}

Environments ==
    {Environment(configured, answer, expires_in) :
        configured \in BOOLEAN, answer \in {"token", "rejected", "raises"},
        expires_in \in ExpiresIn}

\* A process starts in some environment, with nothing cached, and its first
\* search is called.
SessionInit ==
    /\ ToolInit
    /\ NoTransfer
    /\ NoSelection
    /\ spc = "called"
    /\ params = [geometry |-> List(<<Num(0), Num(0)>>),
                 geometry_type |-> "point", start |-> TRUE, end |-> TRUE,
                 mission |-> "sentinel-2", min |-> None, max |-> None,
                 max_results |-> 1]
    /\ products = <<[Id |-> 1, cloudCover |-> Num(50), Name |-> DefaultTitle,
                     Start |-> Yesterday]>>
    /\ geometry = List(<<>>)
    /\ filter_parts = <<>>
    /\ filter = <<>>
    /\ images = <<>>
    /\ environment \in Environments
    /\ _auth_token = NoToken
    /\ _auth_token_expiry = 0
    /\ now = 0
    /\ headers = Headers(NoToken)

\* A minute passes between two calls.
Elapse ==
    /\ spc = "returned"
    /\ now < MaxTime
    /\ now' = now + 1
    /\ UNCHANGED <<environment, _auth_token, _auth_token_expiry, headers>>
    /\ UNCHANGED <<toolVars, searchVars, transferVars, resultVars>>

\* The search is called again, in the same process.
CallAgain ==
    /\ spc = "returned"
    /\ spc' = "called"
    /\ geometry' = List(<<>>)
    /\ filter_parts' = <<>>
    /\ filter' = <<>>
    /\ images' = <<>>
    /\ headers' = Headers(NoToken)
    /\ UNCHANGED <<params, products, environment, _auth_token,
                   _auth_token_expiry, now>>
    /\ UNCHANGED <<toolVars, transferVars, resultVars>>

SessionNext ==
    \/ ValidateGeometry
    \/ CompileFilter
    \/ ParseProducts
    \/ Elapse
    \/ CallAgain

SessionSpec == SessionInit /\ [][SessionNext]_vars

\* ------------------------------------------------ the chunk loop, followed
\* Bytes are counted in parts of a MiB.
MiB == 2

\* chunk_size = 1024 * 1024
chunk_size == 1 * MiB

\* "every 5 seconds or every 50MB"
ProgressSeconds == 5

ProgressBytes == 50 * MiB

\* The longest transfer followed, and the longest wait for a chunk.
MaxDownloaded == 55 * MiB

MaxDelay == 2

\* Lines 1675-1678 and 1926-1929: the loop is about to start.
TransferInit ==
    /\ ToolInit
    /\ NoSearch
    /\ tpc = "streaming"
    /\ chunk = 0
    /\ written = 0
    /\ downloaded = 0
    /\ last_progress_size = 0
    /\ since_progress = 0
    /\ progress_line = NoValue

\* A progress line is printed when the first condition holds.
ReportOnTimeOnly(elapsed, bytes) ==
    IF elapsed >= ProgressSeconds THEN "elapsed" ELSE NoValue

\* `(current_time - last_progress_time >= 5) or (downloaded -
\* last_progress_size >= 50 * 1024 * 1024)`: which condition holds first.
ShouldReport(elapsed, bytes) ==
    IF elapsed >= ProgressSeconds THEN "elapsed"
    ELSE IF bytes >= ProgressBytes THEN "bytes"
    ELSE NoValue

Elapsed(delay) ==
    IF since_progress + delay > ProgressSeconds THEN ProgressSeconds
    ELSE since_progress + delay

\* One pass of the loop over response.aiter_bytes(chunk_size): the chunk
\* arrives after `delay` seconds with `length` bytes; an empty one is skipped.
Chunk(length, delay) ==
    /\ tpc = "streaming"
    /\ downloaded + length <= MaxDownloaded
    /\ chunk' = length
    /\ IF length = 0
       THEN /\ since_progress' = Elapsed(delay)
            /\ progress_line' = NoValue
            /\ UNCHANGED <<written, downloaded, last_progress_size>>
       ELSE /\ written' = written + length
            /\ downloaded' = downloaded + length
            /\ progress_line' =
                  ShouldReport(Elapsed(delay),
                               downloaded' - last_progress_size)
            /\ IF progress_line' # NoValue
               THEN since_progress' = 0 /\ last_progress_size' = downloaded'
               ELSE /\ since_progress' = Elapsed(delay)
                    /\ UNCHANGED last_progress_size
    /\ UNCHANGED tpc
    /\ UNCHANGED <<toolVars, searchVars, authVars, resultVars>>

\* The stream ends: "Download complete" is printed and the file is verified.
Complete ==
    /\ tpc = "streaming"
    /\ tpc' = "complete"
    /\ UNCHANGED <<chunk, written, downloaded, last_progress_size,
                   since_progress, progress_line>>
    /\ UNCHANGED <<toolVars, searchVars, authVars, resultVars>>

TransferNext ==
    \/ \E length \in 0..chunk_size, delay \in 0..MaxDelay : Chunk(length, delay)
    \/ Complete

TransferSpec == TransferInit /\ [][TransferNext]_vars

\* -------------------------------------------------------------- properties

\* The batch ran to its result dict (not to an early authentication error).
BatchCompleted ==
    /\ tool = "batch_download_images"
    /\ pc = "returned"
    /\ "batch_summary" \in ret.keys

\* The number of members of the index set X up to index i.
Rank(X, i) == Cardinality({j \in X : j <= i})

Succeeded == {i \in DOMAIN task : task[i].result.success}

Failed == DOMAIN task \ Succeeded

\* C1: while batch_download_images runs its tasks, the number of tasks that
\* have acquired the semaphore and have not finished is at most
\* max_concurrent, the semaphore's value never goes below zero, and a task
\* that has not acquired a slot has issued no request.
C1_BoundedConcurrency ==
    pc = "gathering" =>
        /\ Cardinality(InFlight) <= max_concurrent
        /\ semaphore >= 0
        /\ \A i \in DOMAIN task :
              task[i].pc = "pending" => task[i].attempts = <<>>

\* C1: more tasks than slots, every slot taken, a task waiting.
C1_Witness ==
    /\ pc = "gathering"
    /\ max_concurrent = MaxConcurrent
    /\ Len(task) > max_concurrent
    /\ Cardinality(InFlight) = max_concurrent
    /\ \E i \in DOMAIN task : task[i].pc = "pending"

\* C2: when batch_download_images completes for N image ids, the lengths of
\* successful_downloads and failed_downloads add up to N = total_images; the
\* k-th successful entry is the result of the k-th task that succeeded and
\* carries the id at that task's input position, and the k-th failed entry
\* names the id and the result of the k-th task that failed, whatever the
\* order in which the tasks finished.
C2_OneOutcomePerId ==
    BatchCompleted =>
        LET N == Len(image_ids)
        IN  /\ Len(task) = N
            /\ ret.total_images = N
            /\ Len(ret.successful_downloads) + Len(ret.failed_downloads) = N
            /\ ret.successful = Len(ret.successful_downloads)
            /\ ret.failed = Len(ret.failed_downloads)
            /\ Len(ret.successful_downloads) = Cardinality(Succeeded)
            /\ \A i \in Succeeded :
                  LET entry == ret.successful_downloads[Rank(Succeeded, i)]
                  IN  /\ entry = task[i].result
                      /\ entry.product_id = image_ids[i]
            /\ \A i \in Failed :
                  LET entry == ret.failed_downloads[Rank(Failed, i)]
                  IN  /\ entry.image_id = image_ids[i]
                      /\ entry.result = task[i].result

\* C2: a completed batch of MaxImages ids, not all the same, with successes
\* and failures, in which a task finished before a task listed before it.
C2_Witness ==
    /\ BatchCompleted
    /\ Len(image_ids) = MaxImages
    /\ \E i \in DOMAIN image_ids : image_ids[i] # image_ids[1]
    /\ out_of_order
    /\ Succeeded # {}
    /\ Failed # {}

\* What a task's slot is worth: one for a task in flight, nothing otherwise.
SlotsHeld == Cardinality(InFlight)

\* C3: in a running batch the slots held and the slots free always add up to
\* max_concurrent, so the slot of a task that failed is free again; the step
\* in which a task ends with a failure outcome changes no other task, gives
\* the task's slot back and leaves the batch running; and the completed batch
\* has as many failed entries as tasks that failed.
C3_FailureIsolation ==
    /\ [](pc = "gathering" => semaphore + SlotsHeld = max_concurrent)
    /\ [](BatchCompleted => Len(ret.failed_downloads) = Cardinality(Failed))
    /\ [][pc = "gathering" =>
             \A i \in DOMAIN task :
                (/\ task[i].pc # "done"
                 /\ task'[i].pc = "done"
                 /\ ~task'[i].result.success)
                => /\ \A j \in DOMAIN task \ {i} : task'[j] = task[j]
                   /\ semaphore' =
                          IF Active(task[i]) THEN semaphore + 1 ELSE semaphore
                   /\ pc' = "gathering"]_vars

\* C3: with one slot, the first task has failed after a request of its own
\* and the second task, which had to wait for that slot, is in flight.
C3_Witness ==
    /\ pc = "gathering"
    /\ max_concurrent = 1
    /\ Len(task) >= 2
    /\ task[1].pc = "done"
    /\ ~task[1].result.success
    /\ task[1].attempts # <<>>
    /\ Active(task[2])

\* C4: no two tasks of a batch have the same destination path open for
\* writing at the same time.
C4_NoWriteContention ==
    pc = "gathering" =>
        \A i, j \in DOMAIN task :
            (i # j /\ Writing(task[i]) /\ Writing(task[j]))
                => OpenPath(task[i]) # OpenPath(task[j])

\* The tasks that run one download path: the tool operation dispatches every
\* task on the same download_type.
Dispatched(dtype) ==
    {i \in DOMAIN task : download_type = dtype /\ task[i].pc # "pending"}

\* How an attempt ended when the endpoint did not deliver the file.
EndpointFailed(outcome) ==
    outcome \in {"http_error", "timeout", "exception", "no_file"}

TriedUrls(t) == [n \in DOMAIN t.attempts |-> t.attempts[n].url]

\* C5: an invocation of _download_full_product that has returned has a
\* failure outcome exactly when it has tried every candidate endpoint and
\* each of them failed (by status, timeout or exception), and the failure
\* outcome's tried_urls are the URLs of its attempts, in their order.
C5_FailureIffAllEndpointsFailed ==
    \A i \in Dispatched("full") :
        task[i].pc = "done" =>
            LET t == task[i]
                urls == download_urls(t.product_id)
                all_failed ==
                    /\ Len(t.attempts) = Len(urls)
                    /\ \A n \in DOMAIN t.attempts :
                          EndpointFailed(t.attempts[n].outcome)
            IN  /\ ~t.result.success <=> all_failed
                /\ ~t.result.success =>
                      /\ t.result.error = "Download failed"
                      /\ t.result.tried_urls = TriedUrls(t)
                      /\ t.result.tried_urls = urls

\* C5: a full-product download that failed after a timeout of the first
\* endpoint and an error status of the second.
C5_Witness ==
    \E i \in Dispatched("full") :
        /\ task[i].pc = "done"
        /\ ~task[i].result.success
        /\ Len(task[i].attempts) = 2
        /\ task[i].attempts[1].outcome = "timeout"
        /\ task[i].attempts[2].outcome = "http_error"

\* C6: at every moment of an invocation of _download_full_product its n-th
\* request went to the n-th candidate endpoint, every request but the last
\* has failed, and a success outcome follows a last request that delivered
\* and carries that request's URL as download_url.
C6_EndpointsInOrder ==
    \A i \in Dispatched("full") :
        LET t == task[i]
            urls == download_urls(t.product_id)
            last == Len(t.attempts)
        IN  /\ last >= 1
            /\ last <= Len(urls)
            /\ \A n \in DOMAIN t.attempts :
                  /\ t.attempts[n].url = urls[n]
                  /\ n < last => EndpointFailed(t.attempts[n].outcome)
            /\ t.result.success =>
                  /\ t.attempts[last].outcome = "ok"
                  /\ t.result.download_url = t.attempts[last].url

\* C6: the first endpoint timed out, the second delivered, and the success
\* outcome names the second endpoint's URL.
C6_Witness ==
    \E i \in Dispatched("full") :
        /\ task[i].result.success
        /\ Len(task[i].attempts) = 2
        /\ task[i].attempts[1].outcome = "timeout"
        /\ task[i].result.download_url = download_urls(task[i].product_id)[2]

\* C7: an invocation of _download_compressed that returned a failure has
\* tried every endpoint of the full-product path.
C7_FallsBackToFullProduct ==
    \A i \in Dispatched("compressed") :
        (task[i].pc = "done" /\ ~task[i].result.success) =>
            \A n \in DOMAIN download_urls(task[i].product_id) :
                \E m \in DOMAIN task[i].attempts :
                    task[i].attempts[m].url
                        = download_urls(task[i].product_id)[n]

\* The indices of the assets that pass for a quicklook, and the first of them.
Matching(assets) == {n \in DOMAIN assets : IsQuicklookAsset(assets[n])}

FirstMatching(assets) ==
    assets[CHOOSE n \in Matching(assets) : \A m \in Matching(assets) : n <= m]

\* The metadata request of the quicklook invocation t was answered.
MetadataReceived(t) == t.attempts[1].outcome = "ok"

\* C8 (amended): the first request of _download_quicklook is the metadata
\* request with the Assets expansion. Once the metadata is received: with no
\* matching asset the outcome is 'Quicklook not available'; with a first
\* matching asset that has no Id the outcome is 'Quicklook ID not found';
\* in both cases no asset request is issued; otherwise exactly one asset
\* request is issued, for the first matching asset. An invocation that ends
\* at the metadata answer creates no file.
C8_QuicklookFirstMatch ==
    /\ [](\A i \in Dispatched("quicklook") :
             LET t == task[i]
             IN  /\ t.attempts # <<>>
                 /\ t.attempts[1].url = product_url(t.product_id)
                 /\ MetadataReceived(t) =>
                       IF Matching(t.assets) = {}
                       THEN /\ t.result.error = "Quicklook not available"
                            /\ Len(t.attempts) = 1
                       ELSE IF FirstMatching(t.assets).Id = NoValue
                       THEN /\ t.result.error = "Quicklook ID not found"
                            /\ Len(t.attempts) = 1
                       ELSE /\ Len(t.attempts) = 2
                            /\ t.attempts[2].url
                                  = quicklook_url(FirstMatching(t.assets).Id))
    /\ [][\A i \in DOMAIN task :
             (task[i].pc = "ql_meta" /\ task'[i].pc = "done")
                 => files' = files]_vars

\* C8: a quicklook was downloaded from metadata with two matching assets of
\* different Ids, the first of which is not the first asset kind listed.
C8_Witness ==
    \E i \in Dispatched("quicklook") :
        /\ task[i].result.success
        /\ Len(task[i].assets) = 2
        /\ Matching(task[i].assets) = {1, 2}
        /\ task[i].assets[1].Id = "q2"
        /\ task[i].assets[2].Id = "q1"

\* C8 (as stated): whenever the metadata holds a matching asset, exactly one
\* asset request is issued, for the first matching asset.
C8_AlwaysDownloadsFirstMatch ==
    \A i \in Dispatched("quicklook") :
        (MetadataReceived(task[i]) /\ Matching(task[i].assets) # {})
            => /\ Len(task[i].attempts) = 2
               /\ task[i].attempts[2].url
                     = quicklook_url(FirstMatching(task[i].assets).Id)

\* C9: no tool operation ends by raising an exception to its caller.
C9_NoExceptionEscapes == ret.kind # "raised"

\* The dict d is an error object without a message.
ErrorWithoutMessage(d) == "error" \in d.keys /\ "message" \notin d.keys

\* C10: every error object a tool operation returns, and every error object
\* a download path returns, has an 'error' and a 'message' key.
C10_ErrorHasMessage ==
    /\ ~ErrorWithoutMessage(ret)
    /\ \A i \in DOMAIN task : ~ErrorWithoutMessage(task[i].result)

\* The errors with which an operation turns down its input.
ValidationErrors ==
    {"Invalid geometry", "Invalid isoformat string", "Invalid date format",
     "Invalid date range", "Invalid group_by value",
     "days_back must be between 1 and 365",
     "max_results must be between 1 and 100", "Invalid download type"}

\* C11: a tool operation that has returned an input-validation error (as its
\* result or, for search_and_download, as its download_result) has sent no
\* request to the token endpoint, the catalogue or the asset store.
C11_ValidationBeforeNetwork ==
    (/\ pc = "returned"
     /\ \/ ("error" \in ret.keys /\ ret.error \in ValidationErrors)
        \/ /\ "download_result" \in ret.keys
           /\ ret.download_result.error \in ValidationErrors)
        => calls = {}

\* The value of the geometry parameter after json.loads of a string.
Parsed(g) == IF g.t = "str" /\ g.n = 1 THEN g.v[1] ELSE g

Items(S) == UNION {{x.v[n] : n \in DOMAIN x.v} : x \in S}

\* The (lon, lat) pairs a geometry input holds, at any depth of its lists and
\* of a GeoJSON object's coordinates; a bounding box holds its two corners.
InputVertices(g, geometry_type) ==
    LET value == Parsed(g)
        nested == {value} \cup Items({value}) \cup Items(Items({value}))
                      \cup Items(Items(Items({value})))
    IN  IF geometry_type = "bbox"
        THEN IF value.t = "list" /\ Len(value.v) = 4 /\ AllNumbers(value.v)
             THEN {Pair(value.v[1].n, value.v[2].n),
                   Pair(value.v[3].n, value.v[4].n)}
             ELSE {}
        ELSE {x \in nested : IsCoordPair(x)}

OutOfRange(pair) == ~ValidLon(pair.v[1].n) \/ ~ValidLat(pair.v[2].n)

HasVertexOutOfRange ==
    \E pair \in InputVertices(params.geometry, params.geometry_type) :
       OutOfRange(pair)

\* C12: a search whose geometry input, of any accepted form, holds a vertex
\* with a longitude outside [-180, 180] or a latitude outside [-90, 90] ends
\* in validate_geometry with the invalid-geometry error: no filter is compiled
\* from it and no catalogue request is sent.
C12_OutOfRangeVertexRejected ==
    (spc # "called" /\ HasVertexOutOfRange)
        => (spc = "Invalid geometry" /\ filter_parts = <<>>)

\* A (lon, lat) pair within the valid ranges.
ValidVertex(x) == IsCoordPair(x) /\ ~OutOfRange(x)

\* C13: whenever validate_geometry returns, for a point, a bounding box or a
\* polygon of any accepted form, its result is a non-empty closed ring of
\* (lon, lat) pairs: at least 3 vertices before the closing one, the first
\* vertex equal to the last, every vertex within the valid ranges.
C13_ReturnsClosedRing ==
    spc = "validated"
        => /\ geometry.t = "list"
           /\ Len(geometry.v) >= 3 + 1
           /\ geometry.v[1] = geometry.v[Len(geometry.v)]
           /\ \A n \in DOMAIN geometry.v : ValidVertex(geometry.v[n])

Least(S) == CHOOSE x \in S : \A y \in S : x <= y

Greatest(S) == CHOOSE x \in S : \A y \in S : x >= y

\* C14: for every valid point (lon, lat), validate_geometry returns a ring of
\* exactly 5 vertices whose first and last vertices are identical and whose
\* extent is symmetric around the point: the least and greatest longitude
\* are lon - d and lon + d, the least and greatest latitude lat - d and
\* lat + d, for the one offset d of create_bbox_from_point.
C14_PointBecomesSymmetricRing ==
    (spc = "validated" /\ params.geometry_type = "point")
        => LET point == Parsed(params.geometry)
               lon == point.v[1].n
               lat == point.v[2].n
               d == size_km
               lons == {geometry.v[n].v[1].n : n \in DOMAIN geometry.v}
               lats == {geometry.v[n].v[2].n : n \in DOMAIN geometry.v}
           IN  /\ Len(geometry.v) = 5
               /\ \A n \in DOMAIN geometry.v : IsCoordPair(geometry.v[n])
               /\ geometry.v[1] = geometry.v[5]
               /\ Least(lons) = lon - d /\ Greatest(lons) = lon + d
               /\ Least(lats) = lat - d /\ Greatest(lats) = lat + d

\* C14's case: the point (10, 0) has been normalised.
C14_Witness ==
    /\ spc = "validated"
    /\ params.geometry_type = "point"
    /\ params.geometry = List(<<Num(Degrees(10)), Num(0)>>)
    /\ geometry.v[1] = Pair(Degrees(10) - size_km, 0 - size_km)

\* The rings of three or more valid vertices a polygon input holds.
ValidInputRings ==
    LET value == Parsed(params.geometry)
        nested == {value} \cup Items({value}) \cup Items(Items({value}))
    IN  {x \in nested : /\ x.t = "list"
                        /\ Len(x.v) >= 3
                        /\ \A n \in DOMAIN x.v : ValidVertex(x.v[n])}

\* C15: validate_geometry is idempotent on polygons: for a polygon input with
\* at least 3 valid vertices, normalising the ring a first normalisation
\* returned returns that same ring, no closing vertex added.
C15_PolygonIdempotent ==
    (/\ spc = "validated"
     /\ params.geometry_type = "polygon"
     /\ ValidInputRings # {})
        => validate_geometry(geometry, "polygon") = Returned(geometry)

\* The request has been compiled (and maybe answered).
Compiled == spc \in {"requesting", "returned", "API request failed"}

IsDateTerm(x) == x.term \in {"ContentDate/Start ge", "ContentDate/Start le"}

IsAnd(x) == x = Term(" and ", <<>>, <<>>)

\* C16: the compiled filter holds date terms if and only if both the start
\* and the end bound are present; they are then exactly two inclusive
\* comparisons on ContentDate/Start, ge the start and le the end, and the
\* fragments of the filter are joined by 'and'; with one bound only there is
\* no date term.
C16_DateTermsIffBothBounds ==
    Compiled
        => /\ SelectSeq(filter, IsDateTerm) =
                 IF params.start /\ params.end
                 THEN << Term("ContentDate/Start ge",
                              <<"isoformat Z", "start">>, <<>>),
                         Term("ContentDate/Start le",
                              <<"isoformat Z", "end">>, <<>>) >>
                 ELSE <<>>
           /\ Len(filter) % 2 = 1
           /\ \A n \in DOMAIN filter : IsAnd(filter[n]) <=> n % 2 = 0

\* C16's cases: a filter with the two date terms, and one compiled with only
\* the start bound.
C16_Witness ==
    /\ Compiled
    /\ \/ params.start /\ params.end /\ Len(SelectSeq(filter, IsDateTerm)) = 2
       \/ params.start /\ ~params.end /\ filter_parts # <<>>

\* The ring is empty, or holds no list of two items, or holds an item that
\* has no length.
Unusable(g) ==
    \/ g.v = <<>>
    \/ \A n \in DOMAIN g.v : g.v[n].t # "list" \/ Len(g.v[n].v) # 2
    \/ \E n \in DOMAIN g.v : g.v[n].t = "num"

IsSpatialTerm(x) == x.term = "geo.intersects"

\* C17: when the ring that reaches the filter builder is empty, or yields no
\* usable coordinate pair, or makes the building of the spatial term raise,
\* the filter has no spatial clause and keeps the other clauses, and the
\* search goes on to the catalogue request: nothing is raised.
C17_SpatialClauseOmitted ==
    [][(spc = "validated" /\ Unusable(geometry))
          => /\ spc' = "requesting"
             /\ SelectSeq(filter', IsSpatialTerm) = <<>>
             /\ filter_parts' = <<CollectionTerm(params)>> \o DateTerms(params)
             /\ filter' = Join(filter_parts')]_vars

\* C17's case: a request compiled from a ring with a bare number in it.
C17_Witness ==
    /\ spc = "requesting"
    /\ geometry.v # <<>>
    /\ \E n \in DOMAIN geometry.v : geometry.v[n].t = "num"
    /\ params.start /\ params.end

\* C18: a date range whose start is not before its end, given to
\* search_copernicus, check_coverage or search_and_download, is rejected: the
\* operation returns an error and no query with that range reaches the
\* catalogue.
C18_InvertedRangeRejected ==
    (/\ pc = "returned"
     /\ tool \in {"search_copernicus", "check_coverage", "search_and_download"}
     /\ args.dates = "inverted")
        => ("error" \in ret.keys /\ "catalog" \notin calls)

\* C19: during a transfer, after each chunk is processed, the bytes received
\* since the last progress report are fewer than 50 MB; and the report goes
\* to stderr only: with or without it, every chunk is written to the file
\* and added to the count of bytes, which is the size the outcome is made of.
C19_ProgressReportBounded ==
    /\ [](tpc # "idle" => /\ downloaded - last_progress_size < ProgressBytes
                          /\ written = downloaded)
    /\ [][tpc' = "streaming"
             => /\ downloaded' = downloaded + chunk'
                /\ written' = written + chunk']_vars

\* C19's case: the 50 MB since the last report have made a chunk print a
\* progress line, after an earlier report made by the 5 seconds.
C19_Witness ==
    /\ tpc = "streaming"
    /\ progress_line = "bytes"
    /\ last_progress_size = downloaded
    /\ downloaded > ProgressBytes

\* The cloud covers of the images returned.
ReturnedCloudCovers ==
    {images[n].cloud_cover_percentage : n \in DOMAIN images}

WithinBounds(cloud_cover) ==
    /\ params.min # None => params.min.n <= cloud_cover.n
    /\ params.max # None => cloud_cover.n <= params.max.n

\* C20, as stated: when a cloud cover minimum or maximum is requested, every
\* image returned has a cloud cover with min <= cloud cover <= max for each
\* bound present, whatever the mission.
C20_EveryImageWithinBounds ==
    (spc = "returned" /\ (params.min # None \/ params.max # None))
        => \A cloud_cover \in ReturnedCloudCovers :
              cloud_cover.t = "num" /\ WithinBounds(cloud_cover)

\* C20, amended: when a cloud cover minimum or maximum is requested, every
\* image returned whose cloud cover is a number has min <= cloud cover <= max
\* for each bound present. An image with no cloud cover (a mission other
\* than sentinel-2 and sentinel-3, no cloudCover attribute, a value float()
\* rejects) or with one that is not a number is returned whatever the bounds.
C20_KnownCloudCoverWithinBounds ==
    (spc = "returned" /\ (params.min # None \/ params.max # None))
        => /\ \A cloud_cover \in ReturnedCloudCovers :
                 cloud_cover.t = "num" => WithinBounds(cloud_cover)
           /\ \A n \in 1..Len(Slice(products, params.max_results)) :
                 CloudCover(products[n], params.mission).t # "num"
                    => \E m \in DOMAIN images : images[m].id = products[n].Id

\* C20's case: with both bounds requested, of two products with a cloud
\* cover one is returned and one is dropped.
C20_Witness ==
    /\ spc = "returned"
    /\ params.min # None /\ params.max # None
    /\ Len(products) = 2 /\ params.max_results = 2
    /\ Len(images) = 1
    /\ images[1].cloud_cover_percentage = Num(50)
    /\ products[1].cloudCover = JsonString(Num(90))

\* C21: the images search_copernicus_images returns are a subsequence of the
\* products of the catalogue's page, in the page's order: products are only
\* dropped (by the result cap, by the cloud cover filter), never reordered.
\* The products of a page carry their position as Id.
C21_ImagesInPageOrder ==
    spc = "returned"
        => /\ \A n \in DOMAIN images : images[n].id \in DOMAIN products
           /\ \A m \in DOMAIN images, n \in DOMAIN images :
                 m < n => images[m].id < images[n].id

\* C21's case: two images are returned, of a page of two products.
C21_Witness ==
    /\ spc = "returned"
    /\ Len(products) = 2
    /\ Len(images) = 2
    /\ params.max # None

\* The first token of the list that occurs in the title, "" when none does.
FirstOccurring(title, tokens) ==
    LET occurring == {n \in DOMAIN tokens : TitleContains(title, tokens[n])}
    IN  IF occurring = {} THEN ""
        ELSE tokens[CHOOSE n \in occurring : \A m \in occurring : n <= m]

\* C22: for every product title, the processing level of the image is the
\* first token of L1C, L2A, GRD, SLC that occurs in the title, and its product
\* type the first token of MSIL1C, MSIL2A, GRD, SLC that occurs in it, each
\* empty when none occurs; each follows from the title alone.
C22_LevelAndTypeFromTitle ==
    spc = "returned"
        => \A n \in DOMAIN images :
              LET title == products[images[n].id].Name
              IN  /\ images[n].processing_level =
                        FirstOccurring(title, <<"L1C", "L2A", "GRD", "SLC">>)
                  /\ images[n].product_type =
                        FirstOccurring(title,
                                       <<"MSIL1C", "MSIL2A", "GRD", "SLC">>)

\* C22's case: a title that holds L2A, then MSIL1C.
C22_Witness ==
    /\ spc = "returned"
    /\ products[1].Name = Chars.L2A \o Chars.MSIL1C
    /\ images # <<>>
    /\ images[1].processing_level = "L1C"
    /\ images[1].product_type = "MSIL1C"

\* No token can be obtained: the credentials are missing or rejected, or the
\* request to the token endpoint raises.
TokenFails == ~environment.configured \/ environment.answer # "token"

Sent == spc \in {"requesting", "returned", "API request failed", "IndexError"}

\* C23: when no token can be obtained, the search goes on from its compiled
\* filter to the catalogue request, the request has no Authorization header,
\* and no sent request of such a search has one: the failure to authenticate
\* does not make the search raise.
C23_SearchGoesOnWithoutToken ==
    /\ [](TokenFails /\ Sent => headers.Authorization = <<>>)
    /\ [][TokenFails /\ spc = "validated"
             => spc' = "requesting" /\ headers'.Authorization = <<>>]_vars

\* C23's case: a search returned its images though the credentials were
\* rejected.
C23_Witness ==
    /\ environment.configured
    /\ environment.answer = "rejected"
    /\ spc = "returned"
    /\ images # <<>>
    /\ headers.Authorization = <<>>

\* C28: with valid credentials in the environment, every catalogue request
\* of a search has an Authorization header.
C28_EveryRequestAuthorized ==
    environment.configured /\ environment.answer = "token" /\ Sent
        => headers.Authorization # <<>>

\* C24, as stated: the selection of search_and_download selects nothing when
\* the search returned no image, and selects the image when it returned one,
\* whatever its score.
C24_OneImageIsSelected ==
    /\ spc = "No images found" => images = <<>> /\ best_product = <<>>
    /\ spc \in {"selected", "No suitable image found"} /\ Len(images) = 1
          => best_product = <<images[1]>>

\* The numbers among the scores of the images.
Comparable(n) == Score(images[n]).t = "num"

Maximal(n) ==
    /\ Comparable(n)
    /\ \A m \in DOMAIN images : Comparable(m) => Score(images[m]).n <= Score(images[n]).n

\* C25: the image selected is the first, in the order of the images, of
\* those whose score is maximal; an image after it with the same score does
\* not take its place. (A score that is not a number is not compared.)
C25_FirstOfMaximalScore ==
    spc = "selected"
        => \E n \in DOMAIN images :
              /\ best_product = <<images[n]>>
              /\ best_score = Score(images[n])
              /\ Maximal(n)
              /\ \A m \in 1..(n - 1) : ~Maximal(m)

\* C25's case: two images with the same score, from different cloud covers
\* and levels; the first is selected.
C25_Witness ==
    /\ spc = "selected"
    /\ Len(images) = 2
    /\ Score(images[1]) = Score(images[2])
    /\ images[1].processing_level # images[2].processing_level
    /\ best_product = <<images[1]>>

\* max(0, 30 - daysSinceAcquisition), in halves.
RecencyTerm(days) == IF days < RecentDays THEN Halves * (RecentDays - days) ELSE 0

\* C26, as stated: the score of every image of the search is
\* max(0, 30 - days since acquisition) + 0.5 * (100 - cloud cover), the latter
\* when there is a cloud cover, + 20 for L2A, 10 for L1C; the timestamps
\* with a time zone, as the catalogue's are, included.
C26_ScoreFormula ==
    spc \in {"selected", "No suitable image found"}
        => \A n \in DOMAIN images :
              LET image == images[n]
                  cloud_cover == image.cloud_cover_percentage
              IN  cloud_cover.t \in {"num", "None"}
                     => Score(image) =
                           Num(RecencyTerm(image.acquisition_date.days_ago)
                               + (IF cloud_cover = None THEN 0
                                  ELSE 100 - cloud_cover.n)
                               + (IF image.processing_level = "L2A"
                                  THEN Halves * 20
                                  ELSE IF image.processing_level = "L1C"
                                  THEN Halves * 10
                                  ELSE 0))

\* C27, as stated: under fair scheduling, with downloads that end, a batch
\* whose tasks have been created, with any max_concurrent the semaphore
\* accepts, returns its result.
C27_BatchReturns == (pc = "gathering") ~> (pc = "returned")

RECURSIVE ImageCounts(_)
ImageCounts(analysis) ==
    IF analysis = <<>> THEN 0
    ELSE Head(analysis).image_count + ImageCounts(Tail(analysis))

\* C29, as stated: every image of check_coverage's search is counted in one
\* period: the image counts of the periods add up to total_images, and at
\* least one period is covered when the search returned an image.
C29_EveryImageInOnePeriod ==
    spc = "covered"
        => /\ coverage.total_images = Len(images)
           /\ ImageCounts(coverage.coverage_analysis) = coverage.total_images
           /\ images # <<>> => coverage.periods_covered >= 1

\* C30, as stated: when the request for the product's metadata succeeds,
\* get_product_download_links returns a success result with the download
\* links, whatever the assets of the product; an asset that is a quicklook
\* and has an Id does not make it an error.
C30_LinksReturnedOnMetadata ==
    (/\ tool = "get_product_download_links"
     /\ pc = "returned"
     /\ "catalog" \in calls
     /\ args.metadata.ok)
        => "success" \in ret.keys /\ "download_links" \in ret.keys

====
